---- MODULE Spec2Model ----
(***************************************************************************)
(* Verification model of xm2live: the MOD/XM note builders                 *)
(* (organize_tracks_by_channel), the track planner and lane packer of      *)
(* convert_xm_to_ableton, the MOD signature/period decoders, and the       *)
(* identifier handling of the project assembly.                            *)
(*                                                                         *)
(* Times are integers in units of 1e-5 beat: a row (row / 4.0 beats) is    *)
(* 25000 units, the 4-beat cap is 400000 units, the 0.001-beat overlap     *)
(* margin is 100 units and round(t, 4) rounds to a multiple of 10 units.   *)
(***************************************************************************)
EXTENDS Integers, Sequences, FiniteSets, TLC

VARIABLES
    pc,                  \* position of the run inside the pipeline
    fmt,                 \* "mod" or "xm" (file extension, xm2live.py:1770)
    raw_cells,           \* file content: non-empty pattern cells of pattern 0
    xm_rows,             \* row count of pattern 0 (64 for MOD)
    pattern_order,       \* play order (0-based pattern indices)
    patterns,            \* decoded patterns: sequence of [rows, data]
    tracks_data,         \* channel -> instrument -> notes (organize result)
    enable_merge_tracks, \* --merge-tracks
    tracks_to_create,    \* planned tracks (convert_xm_to_ableton)
    lane_input,          \* argument of distribute_notes_to_avoid_overlap
    lane_result,         \* its result
    decode_input,        \* a MOD signature (4 bytes at offset 1080) or a period
    decode_result,       \* what the decoder reports for it
    xm_info,             \* header values: bpm and tempo (speed, ticks per row)
    enable_pan_automation,
    enable_sample_offset,
    instruments_with_9xx,\* detect_effect_9xx_per_instrument result
    simpler_template,    \* elements of simpler_template.xml in document order
    live_set,            \* the document being assembled
    track_index,         \* next template track to fill
    global_next_id,      \* the shared identifier counter
    automation_data_list,\* sample-start automations left to the patch pass
    als_file,            \* the written .als file (<< >> before the save)
    command,             \* "batch" (batch_convert.py) or "single" (xm2live.py)
    ignore_case,         \* Path.glob matches without regard to case (Windows)
    directory,           \* tracker files present under the batch directory
    template_exists,     \* the template of the batch command is on disk
    files,               \* find_tracker_files result
    file_index,          \* i of "for i, file_path in enumerate(files, 1)"
    success_count,
    error_count,
    skipped_count,
    existing_als,        \* projects whose .als file is on disk
    handled,             \* the "[i/n] name" lines printed so far
    interrupted,         \* where a KeyboardInterrupt was raised ("no" if none)
    command_result,      \* what batch_convert / convert_xm_to_ableton returned
    exit_status          \* status of the process once it has ended

noteInputs == << fmt, raw_cells, xm_rows, pattern_order, patterns,
                 tracks_data, enable_merge_tracks >>

noteVars == << noteInputs, tracks_to_create >>

laneVars == << lane_input, lane_result >>

decodeVars == << decode_input, decode_result >>

asmVars == << xm_info, enable_pan_automation, enable_sample_offset,
              instruments_with_9xx, simpler_template, live_set, track_index,
              global_next_id, automation_data_list, als_file >>

\* the batch and single-file commands
batchVars == << command, ignore_case, directory, template_exists, files,
                file_index, success_count, error_count, skipped_count,
                existing_als, handled, interrupted, command_result,
                exit_status >>

vars == << pc, noteVars, laneVars, decodeVars, asmVars, batchVars >>

\* Python's None
None == 0 - 1

(***************************************************************************)
(* Bounds of the model.                                                    *)
(***************************************************************************)
\* at most this many non-empty cells in the pattern
MaxEvents == 3

\* rows / channels of the pattern that may hold a non-empty cell
CandidateCells ==
    { <<0, 0>>, <<1, 0>>, <<4, 0>>, <<12, 0>>, <<0, 1>>, <<1, 1>> }

\* play orders: single, repeated, and with an index that has no pattern
PlayOrders == { <<0>>, <<0, 0>>, <<1, 0>> }

\* XM row counts of the pattern (MOD is fixed at 64)
XmRowCounts == { 5, 64 }

\* at most this many notes handed to distribute_notes_to_avoid_overlap
MaxNotes == 3

\* their times, durations (1e-5 beat) and pitches; 49950 lies inside the
\* 0.001-beat margin before the end of a half-beat note at 0
LaneTimes == { 0, 49950, 100000 }
LaneDurations == { 50000, 100000 }
LanePitches == { 60, 62 }

\* the period field of a MOD cell has 12 bits
MaxPeriod == 4095

\* at most this many planned tracks, and template tracks, in an assembly
MaxPlanned == 2
MaxSlots == 2

\* at most this many tracker files under the batch directory
MaxFiles == 3

\* the tracker files there can be: << basename, extension >>, both in lower
\* case as the sort key takes them; song 1 exists as .mod and as .xm
TrackerFiles == { << 1, "mod" >>, << 1, "xm" >>, << 2, "xm" >>, << 3, "mod" >> }

\* first Id of the template's tracks: small, reaching 10000, reaching 100000
TemplateFirstIds == { 1, 9999, 99999 }

\* header << bpm, speed >> pairs
HeaderValues == { << 125, 6 >>, << 125, 3 >>, << 140, 7 >>, << 125, 0 >> }

\* sample lengths (frames) handed to the sample-start automation; 0 only
\* reaches the "if sample_length > 0" guard
SampleLengths == { 0, 1000, 16384, 65536 }

\* header << bpm, speed >> pairs of the XM files of the note pipeline
XmHeaders == { << 125, 6 >>, << 140, 7 >> }

\* byte values tried at offset 1080: the ASCII codes of M . K ! F L T 4 8 6
\* C H N, a NUL and a byte that is not ASCII
SignatureBytes == { 77, 46, 75, 33, 70, 76, 84, 52, 56, 54, 67, 72, 78, 0, 200 }

(***************************************************************************)
(* Program constants.                                                      *)
(***************************************************************************)
QuarterBeat == 25000      \* row / 4.0
FourBeats == 400000       \* min(interval, 4.0)
OverlapMargin == 100      \* 0.001 in distribute_notes_to_avoid_overlap
ModRows == 64             \* "Toujours 64 rows dans MOD"
PeriodTolerance == 10     \* abs(closest_period - period) > 10
GlobalFirstId == 100000   \* global_next_id = 100000
GroupFirstId == 10000     \* next_group_id = 10000
DefaultSpeed == 6         \* default_speed = 6
DefaultBpm == 125         \* default_bpm = 125
SpeedLimit == 31          \* param <= 0x1F
ScanLimit == 10           \* pattern_order[:10]
MaxOffsetParam == 255     \* effect_param is one byte

\* the value of a one-element set; { F(x) : x \in { v } } computes v once,
\* however many times F uses it
TheOne(S) == CHOOSE x \in S : TRUE

Min(a, b) == IF a <= b THEN a ELSE b
Max(a, b) == IF a >= b THEN a ELSE b
Abs(a) == IF a < 0 THEN 0 - a ELSE a

(***************************************************************************)
(* period_to_midi (mod_parser.py:19-59).                                   *)
(***************************************************************************)
\* PERIOD_TABLE in dict (insertion) order: <<period, midi>>
PERIOD_TABLE ==
    << <<856, 48>>, <<808, 49>>, <<762, 50>>, <<720, 51>>, <<678, 52>>, <<640, 53>>,
       <<604, 54>>, <<570, 55>>, <<538, 56>>, <<508, 57>>, <<480, 58>>, <<453, 59>>,
       <<428, 60>>, <<404, 61>>, <<381, 62>>, <<360, 63>>, <<339, 64>>, <<320, 65>>,
       <<302, 66>>, <<285, 67>>, <<269, 68>>, <<254, 69>>, <<240, 70>>, <<226, 71>>,
       <<214, 72>>, <<202, 73>>, <<190, 74>>, <<180, 75>>, <<170, 76>>, <<160, 77>>,
       <<151, 78>>, <<143, 79>>, <<135, 80>>, <<127, 81>>, <<120, 82>>, <<113, 83>>,
       <<107, 84>>, <<101, 85>>, <<95, 86>>, <<90, 87>>, <<85, 88>>, <<80, 89>>,
       <<76, 90>>, <<71, 91>>, <<67, 92>>, <<64, 93>>, <<60, 94>>, <<57, 95>> >>

\* closest_period = min(PERIOD_TABLE.keys(), key=lambda x: abs(x - period)):
\* the first entry, in dict order, at the smallest distance
ClosestIndex(period) ==
    CHOOSE i \in 1..Len(PERIOD_TABLE) :
        /\ \A j \in 1..Len(PERIOD_TABLE) :
              Abs(PERIOD_TABLE[i][1] - period) <= Abs(PERIOD_TABLE[j][1] - period)
        /\ \A j \in 1..(i - 1) :
              Abs(PERIOD_TABLE[j][1] - period) > Abs(PERIOD_TABLE[i][1] - period)

\* int(round(12 * log2((7093789.2 / (period * 2)) / 440.0) + 69 + 24)), tabulated
\* for period in 1..4095: <<p, m>> says the value is m from period p up to the
\* next entry's period (the value falls as the period grows; no period in the
\* range lands within 6e-5 of a rounding boundary)
FormulaBreaks ==
    << <<1, 249>>, <<2, 237>>, <<3, 230>>, <<4, 225>>, <<5, 221>>, <<6, 218>>,
       <<7, 215>>, <<8, 213>>, <<9, 211>>, <<10, 209>>, <<11, 207>>, <<12, 206>>,
       <<13, 204>>, <<14, 203>>, <<15, 202>>, <<16, 201>>, <<17, 200>>, <<18, 199>>,
       <<19, 198>>, <<20, 197>>, <<21, 196>>, <<22, 195>>, <<23, 194>>, <<25, 193>>,
       <<26, 192>>, <<28, 191>>, <<29, 190>>, <<31, 189>>, <<33, 188>>, <<35, 187>>,
       <<37, 186>>, <<39, 185>>, <<41, 184>>, <<44, 183>>, <<46, 182>>, <<49, 181>>,
       <<52, 180>>, <<55, 179>>, <<58, 178>>, <<62, 177>>, <<65, 176>>, <<69, 175>>,
       <<73, 174>>, <<78, 173>>, <<82, 172>>, <<87, 171>>, <<92, 170>>, <<98, 169>>,
       <<103, 168>>, <<110, 167>>, <<116, 166>>, <<123, 165>>, <<130, 164>>, <<138, 163>>,
       <<146, 162>>, <<155, 161>>, <<164, 160>>, <<174, 159>>, <<184, 158>>, <<195, 157>>,
       <<206, 156>>, <<219, 155>>, <<232, 154>>, <<245, 153>>, <<260, 152>>, <<275, 151>>,
       <<292, 150>>, <<309, 149>>, <<327, 148>>, <<347, 147>>, <<367, 146>>, <<389, 145>>,
       <<412, 144>>, <<437, 143>>, <<463, 142>>, <<490, 141>>, <<519, 140>>, <<550, 139>>,
       <<583, 138>>, <<617, 137>>, <<654, 136>>, <<693, 135>>, <<734, 134>>, <<777, 133>>,
       <<824, 132>>, <<873, 131>>, <<925, 130>>, <<979, 129>>, <<1038, 128>>, <<1099, 127>>,
       <<1165, 126>>, <<1234, 125>>, <<1307, 124>>, <<1385, 123>>, <<1467, 122>>, <<1554, 121>>,
       <<1647, 120>>, <<1745, 119>>, <<1849, 118>>, <<1958, 117>>, <<2075, 116>>, <<2198, 115>>,
       <<2329, 114>>, <<2467, 113>>, <<2614, 112>>, <<2769, 111>>, <<2934, 110>>, <<3108, 109>>,
       <<3293, 108>>, <<3489, 107>>, <<3697, 106>>, <<3916, 105>> >>

FormulaMidi(period) ==
    LET i == CHOOSE k \in 1..Len(FormulaBreaks) :
                 /\ FormulaBreaks[k][1] <= period
                 /\ (k = Len(FormulaBreaks) \/ FormulaBreaks[k + 1][1] > period)
    IN  FormulaBreaks[i][2]

\* variant: a table entry at distance 10 is already too far
period_to_midi_strict(period) ==
    IF period = 0 THEN None
    ELSE LET c == ClosestIndex(period) IN
         IF Abs(PERIOD_TABLE[c][1] - period) >= PeriodTolerance
         THEN FormulaMidi(period)
         ELSE PERIOD_TABLE[c][2]

period_to_midi(period) ==
    IF period = 0 THEN None
    ELSE LET c == ClosestIndex(period) IN
         IF Abs(PERIOD_TABLE[c][1] - period) > PeriodTolerance
         THEN FormulaMidi(period)
         ELSE PERIOD_TABLE[c][2]

(***************************************************************************)
(* MOD signature (mod_parser.py:62-91 and 260-277).  Strings are sequences *)
(* of ASCII codes.                                                         *)
(***************************************************************************)
\* bytes.decode('ascii', errors='ignore'): bytes above 127 are dropped
DecodeAsciiIgnore(bytes) ==
    LET IsAscii(b) == b < 128
    IN  SelectSeq(bytes, IsAscii)

Sig_MK == << 77, 46, 75, 46 >>      \* 'M.K.'
Sig_MK2 == << 77, 33, 75, 33 >>     \* 'M!K!'
Sig_FLT4 == << 70, 76, 84, 52 >>    \* 'FLT4'
Sig_FLT8 == << 70, 76, 84, 56 >>    \* 'FLT8'
Sig_4CHN == << 52, 67, 72, 78 >>    \* '4CHN'
Sig_6CHN == << 54, 67, 72, 78 >>    \* '6CHN'
Sig_8CHN == << 56, 67, 72, 78 >>    \* '8CHN'

KnownSignatures ==
    { Sig_MK, Sig_MK2, Sig_FLT4, Sig_FLT8, Sig_4CHN, Sig_6CHN, Sig_8CHN }

\* variant: 6CHN falls through to the 4-channel default
read_mod_header_no6(bytes) ==
    LET signature == DecodeAsciiIgnore(bytes)
    IN  [num_samples |-> IF signature \in KnownSignatures THEN 31 ELSE 15,
         num_channels |-> IF signature = Sig_FLT8 \/ signature = Sig_8CHN
                          THEN 8 ELSE 4]

\* read_mod_header: the counts it returns for the 4 bytes at offset 1080
read_mod_header(bytes) ==
    LET signature == DecodeAsciiIgnore(bytes)
    IN  [num_samples |-> IF signature \in KnownSignatures THEN 31 ELSE 15,
         num_channels |-> IF signature = Sig_FLT8 \/ signature = Sig_8CHN THEN 8
                          ELSE IF signature = Sig_6CHN THEN 6
                          ELSE 4]

\* extract_samples_and_patterns: num_samples / num_channels it works with
ExtractSignatureCounts(bytes) ==
    LET signature == DecodeAsciiIgnore(bytes)
    IN  [num_samples |-> IF signature \in KnownSignatures THEN 31 ELSE 15,
         num_channels |-> IF signature = Sig_FLT8 \/ signature = Sig_8CHN THEN 8
                          ELSE IF signature = Sig_6CHN THEN 6
                          ELSE 4]

\* f.read(20): the title
TitleBytes == 20

\* read_mod_samples_info reads 22 + 2 + 1 + 1 + 2 + 2 bytes per sample
SampleHeaderBytes == 30

\* samples_info = read_mod_samples_info(f, 31)
HeadersRead == 31

\* list(f.read(128)): the play order
OrderBytes == 128

\* extract_samples_and_patterns of mod_parser.py: the file offsets it reads
\* from.  The title and HeadersRead sample headers come first, then the
\* song length, the restart byte and the play order, then 4 bytes taken
\* for the signature; when they are no known signature the position goes
\* back by these 4 bytes and the pattern data is read from there.
ExtractLayout(bytes) ==
    LET signature == DecodeAsciiIgnore(bytes)
        headers_end == TitleBytes + HeadersRead * SampleHeaderBytes
        order_start == headers_end + 2
        signature_start == order_start + OrderBytes
    IN  [sample_headers |-> HeadersRead,
         song_length_at |-> headers_end,
         pattern_order_at |-> order_start,
         signature_at |-> signature_start,
         pattern_data_at |-> IF signature \in KnownSignatures
                             THEN signature_start + 4
                             ELSE signature_start]

(***************************************************************************)
(* Pattern cells.  A MOD cell is the 4-byte record already split into its  *)
(* fields; an XM cell is the set of fields the (un)packed bytes carry.     *)
(***************************************************************************)
ModNoteCell(period, sample) ==
    [period |-> period, sample |-> sample, effect |-> 0, param |-> 0]

ModCells ==
    { ModNoteCell(428, 1), ModNoteCell(381, 1), ModNoteCell(428, 2),
      [period |-> 0, sample |-> 0, effect |-> 15, param |-> 3],
      [period |-> 0, sample |-> 0, effect |-> 12, param |-> 0] }

XmNoteCell(note, instrument) ==
    [note |-> note, instrument |-> instrument, volume |-> None,
     effect_type |-> None, effect_param |-> None]

XmCells ==
    { XmNoteCell(49, 1), XmNoteCell(51, 1), XmNoteCell(49, 2), XmNoteCell(49, 3),
      [note |-> None, instrument |-> None, volume |-> 16,
       effect_type |-> None, effect_param |-> None] }

\* instruments for which a sample was decoded (instrument_to_sample keys)
DecodedInstruments == { 1, 2 }

\* the cells of a pattern in reading order: for row ...: for channel ...
RECURSIVE CellSeq(_)
CellSeq(cs) ==
    IF cs = {} THEN << >>
    ELSE LET m == CHOOSE c \in cs :
                     \A d \in cs : c[1] < d[1] \/ (c[1] = d[1] /\ c[2] <= d[2])
         IN  << m >> \o CellSeq(cs \ {m})

RECURSIVE Flatten(_)
Flatten(ss) ==
    IF ss = << >> THEN << >> ELSE Head(ss) \o Flatten(Tail(ss))

\* one decoded pattern event (the dict appended to pattern_data / notes);
\* a key the format does not write reads as None through dict.get
Event(row, channel, note, sample, instrument, volume, effect, effect_type, effect_param, sample_offset_xm, is_volume_stop) ==
    [row |-> row, channel |-> channel, note |-> note, sample |-> sample,
     instrument |-> instrument, volume |-> volume, effect |-> effect,
     effect_type |-> effect_type, effect_param |-> effect_param,
     sample_offset_xm |-> sample_offset_xm, is_volume_stop |-> is_volume_stop]

\* read_mod_patterns, body of the cell loop (mod_parser.py:147-204)
ModCellEvent(row, channel, c) ==
    LET sample_offset_xm == IF c.effect = 9 THEN c.param ELSE None
        midi_note == period_to_midi(c.period)
    IN  IF c.period > 0 /\ c.sample > 0
        THEN IF midi_note # None /\ midi_note # 0
             THEN << Event(row, channel, midi_note, c.sample, None, 64, c.effect,
                           None, c.param, sample_offset_xm, FALSE) >>
             ELSE << >>
        ELSE IF c.effect = 15 /\ c.param > 0
        THEN << Event(row, channel, None, 0, None, 64, c.effect, None, c.param,
                      sample_offset_xm, FALSE) >>
        ELSE IF c.effect = 12 /\ c.param = 0
        THEN << Event(row, channel, None, 0, None, 0, c.effect, None, c.param,
                      None, TRUE) >>
        ELSE << >>

\* parse_pattern_data, after the cell's fields are read (xm_parser.py:108-145)
XmCellEvent(row, channel, c) ==
    LET decoded_volume ==
            IF c.volume # None /\ 16 <= c.volume /\ c.volume <= 80
            THEN c.volume - 16 ELSE None
        sample_offset_xm ==
            IF c.effect_type = 9
            THEN (IF c.effect_param # None THEN c.effect_param ELSE 0)
            ELSE None
    IN  IF c.note # None /\ c.note > 0 /\ c.note < 97
           /\ c.instrument # None /\ c.instrument > 0
        THEN << Event(row, channel, c.note, None, c.instrument,
                      IF decoded_volume = None THEN 64 ELSE decoded_volume,
                      None, c.effect_type, c.effect_param, sample_offset_xm, FALSE) >>
        ELSE IF decoded_volume # None /\ decoded_volume = 0
        THEN << Event(row, channel, None, None, None, 0, None, None, None,
                      None, TRUE) >>
        ELSE << >>

\* pattern_data of one pattern: the events of its cells in reading order
\* ("for row in range(num_rows)": a cell beyond the last row is never read)
PatternData(f, cells, rows) ==
    LET cs == CellSeq({ c \in DOMAIN cells : c[1] < rows })
    IN  Flatten([k \in 1..Len(cs) |->
                    IF f = "mod"
                    THEN ModCellEvent(cs[k][1], cs[k][2], cells[cs[k]])
                    ELSE XmCellEvent(cs[k][1], cs[k][2], cells[cs[k]])])

\* read_mod_patterns / read_patterns: pattern 0 holds the cells; MOD reads
\* max(pattern_order) + 1 patterns (the others hold only empty cells), the XM
\* header of the model announces one pattern
ReadPatterns(f, cells, rows, order) ==
    LET p0 == [rows |-> IF f = "mod" THEN ModRows ELSE rows,
               data |-> PatternData(f, cells, IF f = "mod" THEN ModRows ELSE rows)]
        num_patterns ==
            IF f = "mod"
            THEN (CHOOSE m \in {order[k] : k \in DOMAIN order} :
                      \A k \in DOMAIN order : order[k] <= m) + 1
            ELSE 1
    IN  [n \in 1..num_patterns |->
            IF n = 1 THEN p0 ELSE [rows |-> ModRows, data |-> << >>]]

(***************************************************************************)
(* MOD speed / BPM extraction (mod_parser.py:345-366).                     *)
(***************************************************************************)
\* the loop over pattern['data']: the first entry with effect 0xF and a
\* parameter above 0 sets the speed or the BPM, and the loop breaks
ScanPatternTempo(data, info) ==
    LET hits == { k \in DOMAIN data :
                     data[k].effect = 15 /\ data[k].effect_param > 0 }
    IN  IF hits = {} THEN info
        ELSE LET param == data[CHOOSE k \in hits : \A j \in hits : k <= j].effect_param
             IN  IF param <= SpeedLimit
                 THEN [info EXCEPT !.tempo = param]
                 ELSE [info EXCEPT !.bpm = param]

\* the loop over pattern_order[:10] from entry i on: it stops once the speed
\* or the BPM differs from its default
RECURSIVE ScanOrderTempo(_, _, _, _)
ScanOrderTempo(pats, order, i, info) ==
    IF i > Min(Len(order), ScanLimit) THEN info
    ELSE IF order[i] >= Len(pats)
    THEN ScanOrderTempo(pats, order, i + 1, info)
    ELSE TheOne({ IF found.tempo # DefaultSpeed \/ found.bpm # DefaultBpm
                  THEN found
                  ELSE ScanOrderTempo(pats, order, i + 1, found) :
                  found \in { ScanPatternTempo(pats[order[i] + 1].data, info) } })

\* the 'tempo' and 'bpm' entries of mod_info
ModTempo(pats, order) ==
    ScanOrderTempo(pats, order, 1, [bpm |-> DefaultBpm, tempo |-> DefaultSpeed])

(***************************************************************************)
(* organize_tracks_by_channel (mod_parser.py:380-476, xm_parser.py:347-458)*)
(***************************************************************************)
\* the entry appended to notes_by_channel[channel] for one pattern event
TimedEvent(f, e, current_time) ==
    LET absolute_time == current_time + e.row * QuarterBeat
    IN  IF e.is_volume_stop
        THEN [channel |-> e.channel, time |-> absolute_time, is_volume_stop |-> TRUE,
              note |-> None, velocity |-> None, instrument |-> None, duration |-> None,
              panning_xm |-> None, sample_offset_xm |-> None]
        ELSE IF f = "mod"
        THEN [channel |-> e.channel, time |-> absolute_time, is_volume_stop |-> FALSE,
              note |-> e.note, velocity |-> (e.volume * 127) \div 64,
              instrument |-> e.sample, duration |-> 0,
              panning_xm |-> None, sample_offset_xm |-> e.sample_offset_xm]
        ELSE [channel |-> e.channel, time |-> absolute_time, is_volume_stop |-> FALSE,
              note |-> e.note - 1 + 12, velocity |-> Min(127, e.volume * 2),
              instrument |-> e.instrument, duration |-> 0,
              panning_xm |-> IF e.effect_type = 8
                             THEN (IF e.effect_param # None THEN e.effect_param ELSE 128)
                             ELSE None,
              sample_offset_xm |-> e.sample_offset_xm]

\* the loop over pattern_order, from entry i on, with the time cursor
RECURSIVE CollectNotes(_, _, _, _, _)
CollectNotes(f, pats, order, i, current_time) ==
    IF i > Len(order) THEN << >>
    ELSE IF order[i] >= Len(pats)
    THEN CollectNotes(f, pats, order, i + 1, current_time)
    ELSE LET p == pats[order[i] + 1]
         IN  [k \in 1..Len(p.data) |-> TimedEvent(f, p.data[k], current_time)]
             \o CollectNotes(f, pats, order, i + 1, current_time + p.rows * QuarterBeat)

\* list.sort(key=lambda n: n['time']) is stable
RECURSIVE InsertByTime(_, _)
InsertByTime(sorted, e) ==
    IF sorted = << >> THEN << e >>
    ELSE IF Head(sorted).time <= e.time
    THEN << Head(sorted) >> \o InsertByTime(Tail(sorted), e)
    ELSE << e >> \o sorted

RECURSIVE SortByTime(_)
SortByTime(s) ==
    IF s = << >> THEN << >>
    ELSE InsertByTime(SortByTime(SubSeq(s, 1, Len(s) - 1)), s[Len(s)])

\* the inner loop "for j in range(i + 1, len(channel_notes))": it breaks at the
\* first later entry that is a volume stop or is not one
NextEventTime(channel_notes, i) ==
    LET js == { j \in (i + 1)..Len(channel_notes) :
                   \/ channel_notes[j].is_volume_stop
                   \/ ~channel_notes[j].is_volume_stop }
    IN  IF js = {} THEN None
        ELSE channel_notes[CHOOSE j \in js : \A k \in js : j <= k].time

\* variant: every note lasts 4 beats, whatever follows it on its channel
NoteDurationFull(channel_notes, i) == FourBeats

\* variant: the gap to the next event taken as it is, without min(..., 4.0)
NoteDurationUncapped(channel_notes, i) ==
    LET next_event_time == NextEventTime(channel_notes, i)
    IN  IF next_event_time # None
        THEN next_event_time - channel_notes[i].time
        ELSE FourBeats

NoteDuration(channel_notes, i) ==
    LET next_event_time == NextEventTime(channel_notes, i)
    IN  IF next_event_time # None
        THEN Min(next_event_time - channel_notes[i].time, FourBeats)
        ELSE FourBeats

\* notes_by_channel[channel], sorted, each real note with its duration
ChannelNotes(all, channel) ==
    LET OnChannel(e) == e.channel = channel
        cn == SortByTime(SelectSeq(all, OnChannel))
    IN  [i \in 1..Len(cn) |->
            IF cn[i].is_volume_stop THEN cn[i]
            ELSE [cn[i] EXCEPT !.duration = NoteDuration(cn, i)]]

\* the dict appended to tracks[channel][instrument]
OutNote(n) ==
    [time |-> n.time, note |-> n.note, velocity |-> n.velocity,
     duration |-> n.duration, panning_xm |-> n.panning_xm,
     sample_offset_xm |-> n.sample_offset_xm]

organize_tracks_by_channel(f, pats, order) ==
    LET all == CollectNotes(f, pats, order, 1, 0)
        IsNote(e) == ~e.is_volume_stop
        real(ch) == SelectSeq(ChannelNotes(all, ch), IsNote)
        chans == { ch \in { all[k].channel : k \in DOMAIN all } : real(ch) # << >> }
    IN  [ch \in chans |->
            [inst \in { real(ch)[k].instrument : k \in DOMAIN real(ch) } |->
                LET OfInst(n) == n.instrument = inst
                    ns == SelectSeq(real(ch), OfInst)
                IN  [k \in 1..Len(ns) |-> OutNote(ns[k])]]]

(***************************************************************************)
(* Track allocation (xm2live.py:1371-1453 and 1877-1995).                  *)
(***************************************************************************)
\* round(note['time'], 4): to the nearest multiple of 1e-4 beat
Round4(t) == ((t + 5) \div 10) * 10

NoteKey(n) == << Round4(n.time), n.note >>

\* variant: the key of a note is its rounded time alone
RECURSIVE DeduplicateByTime(_, _, _)
DeduplicateByTime(all_notes, i, seen) ==
    IF i > Len(all_notes) THEN << >>
    ELSE IF Round4(all_notes[i].time) \in seen
    THEN DeduplicateByTime(all_notes, i + 1, seen)
    ELSE << all_notes[i] >>
         \o DeduplicateByTime(all_notes, i + 1,
                              seen \cup { Round4(all_notes[i].time) })

\* the dedup loop over all_notes[i..], `seen` holding the keys met so far
RECURSIVE Deduplicate(_, _, _)
Deduplicate(all_notes, i, seen) ==
    IF i > Len(all_notes) THEN << >>
    ELSE IF NoteKey(all_notes[i]) \in seen
    THEN Deduplicate(all_notes, i + 1, seen)
    ELSE << all_notes[i] >>
         \o Deduplicate(all_notes, i + 1, seen \cup { NoteKey(all_notes[i]) })

merge_and_deduplicate_notes(notes_lists) ==
    Deduplicate(SortByTime(Flatten(notes_lists)), 1, {})

\* "if not (note_end <= existing_start + 0.001 or note_start >= existing_end - 0.001)"
HasOverlap(track, note) ==
    \E k \in DOMAIN track :
        ~ ( \/ note.time + note.duration <= track[k].time + OverlapMargin
            \/ note.time >= track[k].time + track[k].duration - OverlapMargin )

\* variant: every note but the first opens a lane of its own
PlaceNoteOwnLane(tracks, note) ==
    IF tracks = << << >> >> THEN << << note >> >>
    ELSE Append(tracks, << note >>)

\* variant: every note goes to lane 0, overlapping or not
PlaceNoteFirstLane(tracks, note) ==
    [tracks EXCEPT ![1] = Append(@, note)]

\* variant: the note goes to the last lane that accepts it instead of the first
PlaceNoteLastFit(tracks, note) ==
    LET free == { t \in DOMAIN tracks : ~HasOverlap(tracks[t], note) }
    IN  IF free = {} THEN Append(tracks, << note >>)
        ELSE LET t == CHOOSE x \in free : \A y \in free : x >= y
             IN  [tracks EXCEPT ![t] = Append(@, note)]

\* one iteration of "for note in merged_notes"
PlaceNote(tracks, note) ==
    LET free == { t \in DOMAIN tracks : ~HasOverlap(tracks[t], note) }
    IN  IF free = {} THEN Append(tracks, << note >>)
        ELSE LET t == CHOOSE x \in free : \A y \in free : x <= y
             IN  [tracks EXCEPT ![t] = Append(@, note)]

RECURSIVE PlaceAll(_, _, _)
PlaceAll(tracks, merged_notes, i) ==
    IF i > Len(merged_notes) THEN tracks
    ELSE PlaceAll(PlaceNote(tracks, merged_notes[i]), merged_notes, i + 1)

distribute_notes_to_avoid_overlap(merged_notes) ==
    IF merged_notes = << >> THEN << << >> >>
    ELSE PlaceAll(<< << >> >>, merged_notes, 1)

\* sorted(S) for a set of integers
RECURSIVE Sorted(_)
Sorted(S) ==
    IF S = {} THEN << >>
    ELSE LET m == CHOOSE x \in S : \A y \in S : x <= y
         IN  << m >> \o Sorted(S \ {m})

\* unique_instruments (xm2live.py:1923)
UniqueInstruments(td) ==
    Sorted({ inst \in UNION { DOMAIN td[ch] : ch \in DOMAIN td } :
                inst \in DecodedInstruments })

\* instrument_tracks of one instrument (xm2live.py:1945-1959)
InstrumentTracks(td, instrument) ==
    LET chs == Sorted({ ch \in DOMAIN td : instrument \in DOMAIN td[ch] })
    IN  [k \in 1..Len(chs) |->
            [instrument |-> instrument, channel |-> chs[k],
             notes |-> td[chs[k]][instrument], lane |-> None,
             track_element |-> None]]

\* the merged tracks of one instrument (xm2live.py:1962-1991): empty lanes
\* are skipped, lane i is named "All notes" (i = 0) or "All notes (i+1)"
MergedTracks(instrument, instrument_tracks) ==
    LET lanes ==
            distribute_notes_to_avoid_overlap(
                merge_and_deduplicate_notes(
                    [k \in 1..Len(instrument_tracks) |-> instrument_tracks[k].notes]))
        NonEmpty(t) == t.notes # << >>
    IN  SelectSeq([i \in 1..Len(lanes) |->
                      [instrument |-> instrument, channel |-> None,
                       notes |-> lanes[i], lane |-> i - 1,
                       track_element |-> None]],
                  NonEmpty)

\* tracks_to_create (xm2live.py:1935-1995)
PlanTracks(td, merge) ==
    LET insts == UniqueInstruments(td)
    IN  Flatten([k \in 1..Len(insts) |->
                    LET instrument_tracks == InstrumentTracks(td, insts[k])
                    IN  IF merge /\ Len(instrument_tracks) > 0
                        THEN MergedTracks(insts[k], instrument_tracks)
                        ELSE instrument_tracks])

(***************************************************************************)
(* The note pipeline of one conversion: decode, organize, plan.            *)
(***************************************************************************)
CellChoices == { cs \in SUBSET CandidateCells : Cardinality(cs) <= MaxEvents }

LanesIdle ==
    /\ lane_input = << >>
    /\ lane_result = << >>

DecodeIdle ==
    /\ decode_input = << >>
    /\ decode_result = << >>

BatchIdle ==
    /\ command = "none"
    /\ ignore_case = FALSE
    /\ directory = {}
    /\ template_exists = FALSE
    /\ files = << >>
    /\ file_index = 0
    /\ success_count = 0
    /\ error_count = 0
    /\ skipped_count = 0
    /\ existing_als = {}
    /\ handled = << >>
    /\ interrupted = "no"
    /\ command_result = "none"
    /\ exit_status = None

NoteInputsIdle ==
    /\ fmt = "none"
    /\ raw_cells = << >>
    /\ xm_rows = 0
    /\ pattern_order = << >>
    /\ patterns = << >>
    /\ tracks_data = << >>
    /\ enable_merge_tracks = FALSE

NotesIdle ==
    /\ NoteInputsIdle
    /\ tracks_to_create = << >>

AsmIdle ==
    /\ xm_info = << >>
    /\ enable_pan_automation = FALSE
    /\ enable_sample_offset = FALSE
    /\ instruments_with_9xx = {}
    /\ simpler_template = << >>
    /\ live_set = << >>
    /\ track_index = 0
    /\ global_next_id = 0
    /\ automation_data_list = << >>
    /\ als_file = << >>

Init ==
    /\ pc = "start"
    /\ fmt \in { "mod", "xm" }
    /\ \E cs \in CellChoices :
          raw_cells \in [cs -> IF fmt = "mod" THEN ModCells ELSE XmCells]
    /\ xm_rows \in (IF fmt = "mod" THEN { ModRows } ELSE XmRowCounts)
    /\ pattern_order \in PlayOrders
    /\ patterns = << >>
    /\ tracks_data = << >>
    /\ enable_merge_tracks = FALSE
    /\ tracks_to_create = << >>
    /\ LanesIdle
    /\ DecodeIdle
    /\ BatchIdle
    /\ AsmIdle

\* detect_effect_9xx_per_instrument: the 'instrument' values of the events of
\* the played patterns whose 'effect_type' (XM) or 'effect' (MOD) is 0x09; an
\* event without 'instrument' is passed over
detect_effect_9xx_per_instrument(pats, order, file_format) ==
    LET played == { j \in DOMAIN order : order[j] < Len(pats) }
        events == UNION { { pats[order[k] + 1].data[i] :
                              i \in DOMAIN pats[order[k] + 1].data } :
                          k \in played }
    IN  { e.instrument :
            e \in { d \in events :
                      /\ d.instrument # None
                      /\ IF file_format = "xm"
                         THEN d.effect_type = 9
                         ELSE d.effect = 9 } }

\* extract_mod / extract_xm: the patterns, and the speed and BPM: scanned
\* from the patterns of a MOD, read from the header of an XM; then the
\* instruments with effect 9xx, looked for under --sample-offset only
ExtractPatterns ==
    /\ pc = "start"
    /\ patterns' = ReadPatterns(fmt, raw_cells, xm_rows, pattern_order)
    /\ IF fmt = "mod"
       THEN xm_info' = ModTempo(patterns', pattern_order)
       ELSE \E h \in XmHeaders : xm_info' = [bpm |-> h[1], tempo |-> h[2]]
    /\ instruments_with_9xx' =
           IF enable_sample_offset
           THEN detect_effect_9xx_per_instrument(patterns', pattern_order, fmt)
           ELSE {}
    /\ pc' = "extracted"
    /\ UNCHANGED << fmt, raw_cells, xm_rows, pattern_order, tracks_data,
                    enable_merge_tracks, tracks_to_create, laneVars, decodeVars,
                    enable_pan_automation, enable_sample_offset,
                    simpler_template, live_set, track_index,
                    global_next_id, automation_data_list, als_file, batchVars >>

\* tracks_data = organize_func(patterns, pattern_order, samples, channels)
OrganizeTracks ==
    /\ pc = "extracted"
    /\ tracks_data' = organize_tracks_by_channel(fmt, patterns, pattern_order)
    /\ pc' = "organized"
    /\ UNCHANGED << fmt, raw_cells, xm_rows, pattern_order, patterns,
                    enable_merge_tracks, tracks_to_create, laneVars, decodeVars, asmVars,
                    batchVars >>

\* the planning loop of convert_xm_to_ableton, with or without --merge-tracks
PlanAllTracks ==
    /\ pc = "organized"
    /\ \E merge \in BOOLEAN :
          /\ enable_merge_tracks' = merge
          /\ tracks_to_create' = PlanTracks(tracks_data, merge)
    /\ pc' = "planned"
    /\ UNCHANGED << fmt, raw_cells, xm_rows, pattern_order, patterns, tracks_data,
                    laneVars, decodeVars, asmVars, batchVars >>

Next == ExtractPatterns \/ OrganizeTracks \/ PlanAllTracks

Spec == Init /\ [][Next]_vars

(***************************************************************************)
(* distribute_notes_to_avoid_overlap applied to one list of merged notes.  *)
(***************************************************************************)
LaneNotes ==
    [time : LaneTimes, duration : LaneDurations, note : LanePitches,
     velocity : {100}, panning_xm : {None}, sample_offset_xm : {None}]

\* what merge_and_deduplicate_notes can return: sorted by time, keys distinct
LaneInputs ==
    { s \in UNION { [1..n -> LaneNotes] : n \in 0..MaxNotes } :
         /\ \A i \in 1..(Len(s) - 1) : s[i].time <= s[i + 1].time
         /\ \A i, j \in DOMAIN s : i # j => NoteKey(s[i]) # NoteKey(s[j]) }

InitLanes ==
    /\ pc = "merged"
    /\ lane_input \in LaneInputs
    /\ lane_result = << >>
    /\ NotesIdle
    /\ DecodeIdle
    /\ BatchIdle
    /\ AsmIdle

\* distributed_tracks = distribute_notes_to_avoid_overlap(merged_notes)
DistributeNotes ==
    /\ pc = "merged"
    /\ lane_result' = distribute_notes_to_avoid_overlap(lane_input)
    /\ pc' = "distributed"
    /\ UNCHANGED << lane_input, noteVars, decodeVars, asmVars, batchVars >>

NextLanes == DistributeNotes

SpecLanes == InitLanes /\ [][NextLanes]_vars

(***************************************************************************)
(* merge_and_deduplicate_notes applied to the note lists of the channels   *)
(* of one instrument, and once more to its own result.                     *)
(***************************************************************************)
MaxMergeNotes == 3

\* times 0 and 0.00004 beat round to the same 4 decimals; the durations
\* tell apart the notes of one key
MergeNotes ==
    [time : { 0, 4 }, duration : { 50000, 100000 },
     note : LanePitches, velocity : {100}, panning_xm : {None},
     sample_offset_xm : {None}]
    \cup { [time |-> QuarterBeat, duration |-> 50000, note |-> 60,
            velocity |-> 100, panning_xm |-> None, sample_offset_xm |-> None] }

\* notes_lists: the note lists of two channels, MaxMergeNotes notes at most
MergeInputs ==
    { << SubSeq(s, 1, Min(k, Len(s))), SubSeq(s, Min(k, Len(s)) + 1, Len(s)) >> :
        s \in UNION { [1..n -> MergeNotes] : n \in 0..MaxMergeNotes },
        k \in 0..MaxMergeNotes }

InitMerge ==
    /\ pc = "merge"
    /\ lane_input \in MergeInputs
    /\ lane_result = << >>
    /\ NotesIdle
    /\ DecodeIdle
    /\ BatchIdle
    /\ AsmIdle

\* merged_notes = merge_and_deduplicate_notes(notes_lists)
MergeLists ==
    /\ pc = "merge"
    /\ lane_result' = << merge_and_deduplicate_notes(lane_input) >>
    /\ pc' = "merged_once"
    /\ UNCHANGED << lane_input, noteVars, decodeVars, asmVars, batchVars >>

\* the function applied to its own result
MergeAgain ==
    /\ pc = "merged_once"
    /\ lane_result' = Append(lane_result,
                             merge_and_deduplicate_notes(<< lane_result[1] >>))
    /\ pc' = "merged_twice"
    /\ UNCHANGED << lane_input, noteVars, decodeVars, asmVars, batchVars >>

NextMerge == MergeLists \/ MergeAgain

SpecMerge == InitMerge /\ [][NextMerge]_vars

(***************************************************************************)
(* The MOD decoders applied to one signature or to one period.             *)
(***************************************************************************)
InitDecode ==
    /\ pc = "decode"
    /\ \/ \E b \in [1..4 -> SignatureBytes] :
             decode_input = [kind |-> "signature", bytes |-> b, period |-> None]
       \/ \E p \in 0..MaxPeriod :
             decode_input = [kind |-> "period", bytes |-> << >>, period |-> p]
    /\ decode_result = << >>
    /\ NotesIdle
    /\ LanesIdle
    /\ AsmIdle
    /\ BatchIdle

\* read_mod_header and extract_samples_and_patterns read the same file
ReadSignature ==
    /\ pc = "decode"
    /\ decode_input.kind = "signature"
    /\ decode_result' = [header |-> read_mod_header(decode_input.bytes),
                         extract |-> ExtractSignatureCounts(decode_input.bytes),
                         layout |-> ExtractLayout(decode_input.bytes)]
    /\ pc' = "decoded"
    /\ UNCHANGED << decode_input, noteVars, laneVars, asmVars, batchVars >>

\* midi_note = period_to_midi(period)
ConvertPeriod ==
    /\ pc = "decode"
    /\ decode_input.kind = "period"
    /\ decode_result' = [midi_note |-> period_to_midi(decode_input.period)]
    /\ pc' = "decoded"
    /\ UNCHANGED << decode_input, noteVars, laneVars, asmVars, batchVars >>

NextDecode == ReadSignature \/ ConvertPeriod

SpecDecode == InitDecode /\ [][NextDecode]_vars

(***************************************************************************)
(* Project assembly (convert_xm_to_ableton, xm2live.py:1842-2389).  The    *)
(* document is the list of tracks of the Tracks container with the         *)
(* identifier-bearing elements of each, the tempo fields, the playback     *)
(* position and NextPointeeId.  Numeric attribute values are fractions     *)
(* << numerator, denominator >>.                                           *)
(***************************************************************************)
RECURSIVE GCD(_, _)
GCD(a, b) == IF b = 0 THEN a ELSE GCD(b, a % b)

Fraction(n, d) ==
    LET g == GCD(Abs(n), Abs(d))
    IN  IF g = 0 THEN << 0, 1 >> ELSE << n \div g, d \div g >>

\* an element of a device: tag, the parameter it sits under, Id, Value
Element(tag, path, id, value) ==
    [tag |-> tag, path |-> path, Id |-> id, Value |-> value]

\* simpler_template.xml: the Simpler with its On and SampleStart targets, and
\* a PointeeId that follows the Pointee it names
SimplerBackwardRef ==
    << Element("OriginalSimpler", "", 0, None),
       Element("AutomationTarget", "On", 1, None),
       Element("AutomationTarget", "SampleStart", 2, None),
       Element("ModulationTarget", "SampleStart", 3, None),
       Element("Pointee", "", 4, None),
       Element("PointeeId", "", None, 4) >>

\* the same with the PointeeId ahead of the Pointee it names
SimplerForwardRef ==
    << Element("OriginalSimpler", "", 0, None),
       Element("AutomationTarget", "On", 1, None),
       Element("AutomationTarget", "SampleStart", 2, None),
       Element("ModulationTarget", "SampleStart", 3, None),
       Element("PointeeId", "", None, 4),
       Element("Pointee", "", 4, None) >>

\* the same with a PointeeId that names the On AutomationTarget
SimplerTargetRef ==
    << Element("OriginalSimpler", "", 0, None),
       Element("AutomationTarget", "On", 1, None),
       Element("AutomationTarget", "SampleStart", 2, None),
       Element("ModulationTarget", "SampleStart", 3, None),
       Element("PointeeId", "", None, 1) >>

SimplerTemplates == { SimplerBackwardRef, SimplerForwardRef, SimplerTargetRef }

\* the first block of regenerate_ids (and its two repetitions for
\* AutomationTarget and ModulationTarget): st = [e, id_mapping, next_id]
RemapId(st) ==
    IF st.e.Id = None THEN st
    ELSE IF st.e.Id \in DOMAIN st.id_mapping
    THEN [st EXCEPT !.e.Id = st.id_mapping[st.e.Id]]
    ELSE [e |-> [st.e EXCEPT !.Id = st.next_id],
          id_mapping |-> (st.e.Id :> st.next_id) @@ st.id_mapping,
          next_id |-> st.next_id + 1]

\* "if element.tag == 'PointeeId' and 'Value' in element.attrib"
RemapPointee(st) ==
    IF st.e.tag = "PointeeId" /\ st.e.Value # None
       /\ st.e.Value \in DOMAIN st.id_mapping
    THEN [st EXCEPT !.e.Value = st.id_mapping[st.e.Value]]
    ELSE st

\* regenerate_ids on one element, children excluded: the Id block (a), the
\* PointeeId block (b), the AutomationTarget block (c), the ModulationTarget
\* block
RegenerateElement(e, id_mapping, next_id) ==
    TheOne({ IF c.e.tag = "ModulationTarget" THEN RemapId(c) ELSE c :
             c \in { IF b.e.tag = "AutomationTarget" THEN RemapId(b) ELSE b :
                     b \in { RemapPointee(a) :
                             a \in { RemapId([e |-> e, id_mapping |-> id_mapping,
                                              next_id |-> next_id]) } } } })

\* regenerate_ids over the elements from position i on, in document order
RECURSIVE regenerate_ids(_, _, _, _)
regenerate_ids(elements, i, id_mapping, next_id) ==
    IF i > Len(elements) THEN [elements |-> elements, next_id |-> next_id]
    ELSE TheOne({ regenerate_ids([elements EXCEPT ![i] = st.e], i + 1,
                                 st.id_mapping, st.next_id) :
                  st \in { RegenerateElement(elements[i], id_mapping, next_id) } })

\* get_simpler_template: a copy of the template with regenerated ids
get_simpler_template(template, next_id) ==
    regenerate_ids(template, 1, << >>, next_id)

\* track_info['sample'] of an instrument: length in samples, default
\* panning, and the loop, of type 0 (none), 1 (forward), 2 (ping-pong) or 3
\* (both bits of the XM type byte)
SampleOf(instrument) ==
    IF instrument = 1
    THEN [length |-> 65536, panning |-> 128,
          loop_type |-> 2, loop_start |-> 100, loop_length |-> 200]
    ELSE IF instrument = 2
    THEN [length |-> 1000, panning |-> 64,
          loop_type |-> 0, loop_start |-> 0, loop_length |-> 0]
    ELSE IF instrument = 3
    THEN [length |-> 1000, panning |-> 64,
          loop_type |-> 1, loop_start |-> 0, loop_length |-> 1000]
    ELSE [length |-> 1000, panning |-> 64,
          loop_type |-> 3, loop_start |-> 10, loop_length |-> 20]

\* the loop settings of a device as its template holds them: SustainLoop
\* LoopOn, Start, End and Mode of the MultiSamplePart and the Manual of
\* LoopModulators/LoopOn; None and "template" stand for the template's value
TemplateLoop ==
    [LoopOn |-> "template", Start |-> None, End |-> None, Mode |-> None,
     LoopModulatorsOn |-> "template"]

\* variant: the Simpler receives the loop type of the sample as its mode
SimplerLoopOwnType(sample_info) ==
    IF sample_info.loop_type > 0
    THEN [LoopOn |-> "true", Start |-> sample_info.loop_start,
          End |-> sample_info.loop_start + sample_info.loop_length,
          Mode |-> sample_info.loop_type, LoopModulatorsOn |-> "true"]
    ELSE [TemplateLoop EXCEPT !.End = sample_info.length - 1,
                              !.LoopModulatorsOn = "false"]

\* populate_track_with_simpler, the block under wave.open: SustainLoop/End
\* receives num_frames - 1; a loop of any type is written as a forward loop
\* and LoopModulators/LoopOn is switched on, without loop it is switched off
SimplerLoop(sample_info) ==
    IF sample_info.loop_type > 0
    THEN [LoopOn |-> "true", Start |-> sample_info.loop_start,
          End |-> sample_info.loop_start + sample_info.loop_length,
          Mode |-> 1, LoopModulatorsOn |-> "true"]
    ELSE [TemplateLoop EXCEPT !.End = sample_info.length - 1,
                              !.LoopModulatorsOn = "false"]

\* update_sampler_sample, the block under wave.open: SustainLoop/End
\* receives num_frames - 1; a loop is written with the type of the sample
SamplerLoop(sample_info) ==
    IF sample_info.loop_type > 0
    THEN [TemplateLoop EXCEPT !.LoopOn = "true",
                              !.Start = sample_info.loop_start,
                              !.End = sample_info.loop_start
                                        + sample_info.loop_length,
                              !.Mode = sample_info.loop_type]
    ELSE [TemplateLoop EXCEPT !.End = sample_info.length - 1]

\* update_sampler_sample: the sample part of the MultiSampler is filled
update_sampler_sample(track, sample_info) ==
    [track EXCEPT !.loop = SamplerLoop(sample_info)]

\* one FloatEvent
FloatEvent(id, time, value) == [Id |-> id, Time |-> time, Value |-> value]

\* (panning - 128) / 128.0 clamped to [-1, 1]
PanValue(panning) == << Max(0 - 128, Min(128, panning - 128)), 128 >>

\* variant: a note without panning never contributes a point
RECURSIVE PanEventsNoReturn(_, _, _, _, _)
PanEventsNoReturn(sorted_notes, i, default, previous_had_panning, next_id) ==
    IF i > Len(sorted_notes) THEN << >>
    ELSE LET n == sorted_notes[i] IN
         IF n.panning_xm # None
         THEN << FloatEvent(next_id, n.time, PanValue(n.panning_xm)),
                 FloatEvent(next_id + 1, n.time + n.duration, PanValue(n.panning_xm)) >>
              \o PanEventsNoReturn(sorted_notes, i + 1, default, TRUE, next_id + 2)
         ELSE PanEventsNoReturn(sorted_notes, i + 1, default, FALSE, next_id)

\* the note loop of create_pan_automation from note i on
RECURSIVE PanEvents(_, _, _, _, _)
PanEvents(sorted_notes, i, default, previous_had_panning, next_id) ==
    IF i > Len(sorted_notes) THEN << >>
    ELSE LET n == sorted_notes[i] IN
         IF n.panning_xm # None
         THEN << FloatEvent(next_id, n.time, PanValue(n.panning_xm)),
                 FloatEvent(next_id + 1, n.time + n.duration, PanValue(n.panning_xm)) >>
              \o PanEvents(sorted_notes, i + 1, default, TRUE, next_id + 2)
         ELSE IF previous_had_panning
         THEN << FloatEvent(next_id, n.time, PanValue(default)) >>
              \o PanEvents(sorted_notes, i + 1, default, FALSE, next_id + 1)
         ELSE PanEvents(sorted_notes, i + 1, default, FALSE, next_id)

\* create_pan_automation: the track with its pan envelope, and next_id
create_pan_automation(track, notes, sample_default_pan, next_id) ==
    LET HasPan(n) == n.panning_xm # None
        panning_notes == SelectSeq(notes, HasPan)
        values == { panning_notes[k].panning_xm : k \in DOMAIN panning_notes }
        sorted_pan_notes == SortByTime(panning_notes)
        target_missing == track.pan_target = None
        pan_target_id == IF target_missing THEN next_id ELSE track.pan_target
        env_id == IF target_missing THEN next_id + 1 ELSE next_id
        initial == IF sorted_pan_notes[1].time > 0
                   THEN << FloatEvent(env_id + 1, 0, PanValue(sample_default_pan)) >>
                   ELSE << >>
    IN  IF panning_notes = << >> \/ values = { sample_default_pan }
        THEN [track |-> track, next_id |-> next_id]
        ELSE TheOne({
               [track |-> [track EXCEPT
                              !.pan_target = pan_target_id,
                              !.envelopes = Append(@, [Id |-> env_id,
                                                       PointeeId |-> pan_target_id,
                                                       events |-> events])],
                next_id |-> env_id + 1 + Len(events)] :
               events \in { initial \o PanEvents(SortByTime(notes), 1,
                                                 sample_default_pan, FALSE,
                                                 env_id + 1 + Len(initial)) } })

\* populate_track_with_simpler: the MultiSampler is replaced by a copy of the
\* Simpler template; the Id of its SampleStart AutomationTarget is returned
populate_track_with_simpler(track, sample_info, template, next_id) ==
    TheOne({ LET IsSampleStart(e) ==
                     e.tag = "AutomationTarget" /\ e.path = "SampleStart"
                 k == CHOOSE i \in DOMAIN r.elements : IsSampleStart(r.elements[i])
                 no_id == r.elements[k].Id = None
             IN  [track |-> [track EXCEPT
                                !.device = "OriginalSimpler",
                                !.loop = SimplerLoop(sample_info),
                                !.device_elements =
                                    IF no_id
                                    THEN [r.elements EXCEPT ![k].Id = r.next_id]
                                    ELSE r.elements],
                  next_id |-> IF no_id THEN r.next_id + 1 ELSE r.next_id,
                  automation_target_id |->
                      IF no_id THEN r.next_id ELSE r.elements[k].Id] :
             r \in { get_simpler_template(template, next_id) } })

\* the first MidiClip of a template track: its end markers hold the
\* template's values (None) and it has no KeyTrack
TemplateClip ==
    [CurrentEnd |-> None, LoopEnd |-> None, OutMarker |-> None,
     KeyTracks |-> << >>]

\* the pitches of notes_by_key: those of the notes that lie in 0..127
NoteKeys(notes) ==
    { notes[k].note : k \in DOMAIN notes } \cap (0..127)

\* the KeyTracks built from the notes: one per pitch of keys, in ascending
\* order of the pitch, each with its notes in the order of the list
RECURSIVE KeyTracksFrom(_, _)
KeyTracksFrom(notes, keys) ==
    IF keys = {} THEN << >>
    ELSE LET midi_key == CHOOSE k \in keys : \A j \in keys : k <= j
             HasKey(n) == n.note = midi_key
             key_notes == SelectSeq(notes, HasKey)
         IN  << [MidiKey |-> midi_key,
                 events |-> [k \in DOMAIN key_notes |->
                                [Time |-> key_notes[k].time,
                                 Duration |-> key_notes[k].duration,
                                 Velocity |-> key_notes[k].velocity]]] >>
             \o KeyTracksFrom(notes, keys \ { midi_key })

\* update_midi_clip_notes: max_time = max(note['time'] for note in notes) + 4.0
\* goes to CurrentEnd, LoopEnd and OutMarker and the KeyTracks are rebuilt;
\* without notes the clip is left as it is
update_midi_clip_notes(track, notes) ==
    IF notes = << >> THEN [track EXCEPT !.notes = notes]
    ELSE LET times == { notes[k].time : k \in DOMAIN notes }
             max_time == (CHOOSE t \in times : \A u \in times : u <= t) + FourBeats
         IN  [track EXCEPT
                 !.notes = notes,
                 !.clip = [CurrentEnd |-> max_time, LoopEnd |-> max_time,
                           OutMarker |-> max_time,
                           KeyTracks |-> KeyTracksFrom(notes, NoteKeys(notes))]]

\* one iteration of the track loop (xm2live.py:2030-2092) on template track
\* `track` for plan entry track_info
\* a: the device step; b: update_midi_clip_notes and the pan automation
PopulateOne(track, track_info, index, use_simpler, pan, simpler, next_id) ==
    LET HasOffset(n) == n.sample_offset_xm # None
        offset_notes == SelectSeq(track_info.notes, HasOffset)
        WithNotes(t) == update_midi_clip_notes(t, track_info.notes)
    IN  TheOne({
          TheOne({
            [track |-> [b.track EXCEPT !.armed = FALSE],
             next_id |-> b.next_id,
             automation_data |->
                 IF use_simpler /\ a.automation_target_id # None
                    /\ offset_notes # << >>
                 THEN << [track_index |-> index,
                          target_id |-> a.automation_target_id,
                          notes |-> track_info.notes,
                          sample_length |-> SampleOf(track_info.instrument).length] >>
                 ELSE << >>] :
            b \in { IF pan
                    THEN create_pan_automation(WithNotes(a.track), track_info.notes,
                             SampleOf(track_info.instrument).panning, a.next_id)
                    ELSE [track |-> WithNotes(a.track), next_id |-> a.next_id] } }) :
          a \in { IF use_simpler
                  THEN populate_track_with_simpler(track,
                           SampleOf(track_info.instrument), simpler, next_id)
                  ELSE [track |-> update_sampler_sample(track,
                                      SampleOf(track_info.instrument)),
                        next_id |-> next_id,
                        automation_target_id |-> None] } })

\* TrackGroupId Value="-1": the track is in no group
NoTrackGroup == 0 - 1

\* a track of the template (minimal_template / generate_als_with_n_tracks):
\* a MidiTrack with a MultiSampler, its own Id and the Id of its Mixer Pan
\* AutomationTarget
TemplateTrack(slot, first_id) ==
    [tag |-> "MidiTrack", slot |-> slot, Id |-> first_id + 2 * (slot - 1),
     pan_target |-> first_id + 2 * (slot - 1) + 1,
     device |-> "MultiSampler", device_elements |-> << >>, envelopes |-> << >>,
     loop |-> TemplateLoop,
     notes |-> << >>, clip |-> TemplateClip,
     TrackGroupId |-> NoTrackGroup, output |-> "AudioOut/Main",
     unfolded |-> TRUE, armed |-> TRUE]

\* variant: every GroupTrack receives the first group Id
GroupTrackFirstId(group_id, next_id) ==
    [tag |-> "GroupTrack", slot |-> None, Id |-> GroupFirstId, pan_target |-> None,
     device |-> "none",
     device_elements |-> << Element("AutomationTarget", "Speaker", next_id, None),
                            Element("AutomationTarget", "Volume", next_id + 1, None) >>,
     envelopes |-> << >>, loop |-> TemplateLoop, notes |-> << >>,
     clip |-> TemplateClip,
     TrackGroupId |-> NoTrackGroup,
     output |-> "AudioOut/Main", unfolded |-> FALSE, armed |-> FALSE]

\* the GroupTrack element built at xm2live.py:2136-2226
GroupTrack(group_id, next_id) ==
    [tag |-> "GroupTrack", slot |-> None, Id |-> group_id, pan_target |-> None,
     device |-> "none",
     device_elements |-> << Element("AutomationTarget", "Speaker", next_id, None),
                            Element("AutomationTarget", "Volume", next_id + 1, None) >>,
     envelopes |-> << >>, loop |-> TemplateLoop, notes |-> << >>,
     clip |-> TemplateClip,
     TrackGroupId |-> NoTrackGroup,
     output |-> "AudioOut/Main", unfolded |-> FALSE, armed |-> FALSE]

\* the template document with `slots` tracks whose ids start at first_id
TemplateLiveSet(slots, first_id) ==
    [tracks |-> [j \in 1..slots |-> TemplateTrack(j, first_id)],
     next_pointee_id |-> first_id + 2 * slots,
     tempo_fields |-> << [tag |-> "Manual", Value |-> << 120, 1 >>],
                         [tag |-> "FloatEvent", Value |-> << 120, 1 >>],
                         [tag |-> "Manual", Value |-> << 1, 2 >>] >>,
     current_time |-> 4, anchor_time |-> 4, other_time |-> 8]

\* the group loop (xm2live.py:2124-2265) from instrument k of
\* unique_instruments on; st = [tracks, next_group_id, global_next_id]
RECURSIVE CreateGroupTracks(_, _, _, _)
CreateGroupTracks(plan, unique_instruments, k, state) ==
    IF k > Len(unique_instruments) THEN state
    ELSE TheOne({
           LET instrument == unique_instruments[k]
               Created(t) == t.track_element # None /\ t.instrument = instrument
               tracks_for_inst == SelectSeq(plan, Created)
               members == { tracks_for_inst[i].track_element :
                               i \in DOMAIN tracks_for_inst }
               insert_position ==
                   CHOOSE p \in DOMAIN st.tracks :
                       st.tracks[p].slot = tracks_for_inst[1].track_element
               routed == [p \in DOMAIN st.tracks |->
                             IF st.tracks[p].slot \in members
                             THEN [st.tracks[p] EXCEPT
                                      !.TrackGroupId = st.next_group_id,
                                      !.output = "AudioOut/GroupTrack"]
                             ELSE st.tracks[p]]
           IN  IF Len(tracks_for_inst) >= 2
               THEN CreateGroupTracks(plan, unique_instruments, k + 1,
                        [tracks |-> SubSeq(routed, 1, insert_position - 1)
                                    \o << GroupTrack(st.next_group_id,
                                                     st.global_next_id) >>
                                    \o SubSeq(routed, insert_position, Len(routed)),
                         next_group_id |-> st.next_group_id + 1,
                         global_next_id |-> st.global_next_id + 2])
               ELSE CreateGroupTracks(plan, unique_instruments, k + 1, st) :
           st \in { state } })

\* used_track_elements
UsedTrackElements(plan) ==
    { plan[i].track_element : i \in { j \in DOMAIN plan : plan[j].track_element # None } }

\* variant: every track outside used_track_elements leaves the container
remove_unused_tracks_any_tag(tracks, plan) ==
    LET Kept(t) == t.slot \in UsedTrackElements(plan)
        kept == SelectSeq(tracks, Kept)
    IN  [p \in DOMAIN kept |-> [kept[p] EXCEPT !.unfolded = FALSE]]

\* unused MidiTracks leave the container; the used tracks are folded
remove_unused_tracks(tracks, plan) ==
    LET Kept(t) == ~ (t.tag = "MidiTrack" /\ t.slot \notin UsedTrackElements(plan))
        kept == SelectSeq(tracks, Kept)
    IN  [p \in DOMAIN kept |->
            IF kept[p].slot \in UsedTrackElements(plan)
            THEN [kept[p] EXCEPT !.unfolded = FALSE]
            ELSE kept[p]]

\* real_bpm = xm_bpm * (6.0 / xm_speed), for xm_speed # 0
RealBpm(bpm, speed) == Fraction(bpm * 6, speed)

\* the Manual and FloatEvent elements holding '120' receive str(real_bpm); the
\* values of the envelope events lie in [-1, 1] and the Manual elements of a
\* GroupTrack hold 'true' and '1'
correct_tempo(tempo_fields, bpm, speed) ==
    [i \in DOMAIN tempo_fields |->
        IF tempo_fields[i].Value = << 120, 1 >>
        THEN [tempo_fields[i] EXCEPT !.Value = RealBpm(bpm, speed)]
        ELSE tempo_fields[i]]

\* variant: the quotient written as it is, without max(0.0, min(1.0, ...))
SampleStartUnclamped(sample_offset_xm, sample_length) ==
    IF sample_length > 0
    THEN Fraction(sample_offset_xm * 128, sample_length)
    ELSE << 0, 1 >>

\* sample_start = max(0.0, min(1.0, (xx * 256 / 2.0) / sample_length))
SampleStart(sample_offset_xm, sample_length) ==
    IF sample_length > 0
    THEN Fraction(Min(sample_offset_xm * 128, sample_length), sample_length)
    ELSE << 0, 1 >>

\* the note loop of add_sample_offset_automations_to_file from note i on
RECURSIVE SampleStartEvents(_, _, _, _)
SampleStartEvents(sorted_notes, i, sample_length, next_id) ==
    IF i > Len(sorted_notes) THEN << >>
    ELSE LET n == sorted_notes[i]
             v == IF n.sample_offset_xm # None
                  THEN SampleStart(n.sample_offset_xm, sample_length)
                  ELSE << 0, 1 >>
         IN  << FloatEvent(next_id, n.time, v),
                FloatEvent(next_id + 1, n.time + n.duration, v) >>
             \o SampleStartEvents(sorted_notes, i + 1, sample_length, next_id + 2)

\* variant: every track of the document is counted
AllTrackPositions(tracks) ==
    [p \in DOMAIN tracks |-> p]

\* the positions of the MidiTracks among the tracks, in document order
MidiTrackPositions(tracks) ==
    LET IsMidi(p) == tracks[p].tag = "MidiTrack"
    IN  SelectSeq([p \in DOMAIN tracks |-> p], IsMidi)

\* add_sample_offset_automations_to_file, from entry k of automation_data on
RECURSIVE add_sample_offset_automations(_, _, _, _)
add_sample_offset_automations(file_tracks, automation_data, k, first_id) ==
    IF k > Len(automation_data) THEN file_tracks
    ELSE TheOne({
           LET data == automation_data[k]
               tracks == st.tracks
               next_id == st.next_id
               all_midi_tracks == MidiTrackPositions(tracks)
               p == all_midi_tracks[data.track_index + 1]
               events == << FloatEvent(next_id + 1, 0, << 0, 1 >>) >>
                         \o SampleStartEvents(SortByTime(data.notes), 1,
                                              data.sample_length, next_id + 2)
           IN  IF data.track_index >= Len(all_midi_tracks)
                  \/ tracks[p].device # "OriginalSimpler"
               THEN add_sample_offset_automations(tracks, automation_data, k + 1,
                                                  next_id)
               ELSE add_sample_offset_automations(
                        [tracks EXCEPT ![p].envelopes =
                             << [Id |-> next_id, PointeeId |-> data.target_id,
                                 events |-> events] >>],
                        automation_data, k + 1, next_id + 1 + Len(events)) :
           st \in { [tracks |-> file_tracks, next_id |-> first_id] } })

(***************************************************************************)
(* The assembly of one project, from the planned tracks to the .als file.  *)
(***************************************************************************)
AsmNote(time, duration, note, panning_xm, sample_offset_xm) ==
    [time |-> time, note |-> note, velocity |-> 127, duration |-> duration,
     panning_xm |-> panning_xm, sample_offset_xm |-> sample_offset_xm]

\* note lists of a planned track: plain, with a 9xx note, with an 8xx note
PlanNoteLists ==
    { << AsmNote(0, 400000, 60, None, None) >>,
      << AsmNote(0, 100000, 60, None, 128), AsmNote(100000, 400000, 62, None, None) >>,
      << AsmNote(100000, 100000, 60, 64, None), AsmNote(200000, 400000, 62, None, None) >> }

\* tracks_to_create as the planning loop leaves it: grouped by instrument in
\* ascending order, no track filled yet
Plans ==
    { [k \in DOMAIN c |->
          [instrument |-> c[k][1], channel |-> k - 1, notes |-> c[k][2],
           lane |-> None, track_element |-> None]] :
      c \in { s \in UNION { [1..n -> DecodedInstruments \X PlanNoteLists] :
                              n \in 0..MaxPlanned } :
                 \A i \in 1..(Len(s) - 1) : s[i][1] <= s[i + 1][1] } }

\* instruments that own a note with a sample offset
OffsetInstruments(plan) ==
    { plan[i].instrument :
        i \in { j \in DOMAIN plan :
                  \E k \in DOMAIN plan[j].notes :
                      plan[j].notes[k].sample_offset_xm # None } }

InitAsm ==
    /\ pc = "loaded"
    /\ xm_info \in { [bpm |-> h[1], tempo |-> h[2]] : h \in HeaderValues }
    /\ enable_pan_automation \in BOOLEAN
    /\ enable_sample_offset \in BOOLEAN
    /\ tracks_to_create \in Plans
    /\ instruments_with_9xx \in { OffsetInstruments(tracks_to_create), {} }
    /\ simpler_template \in SimplerTemplates
    /\ live_set \in { TemplateLiveSet(n, f) : n \in 1..MaxSlots, f \in TemplateFirstIds }
    /\ track_index = 0
    /\ global_next_id = 0
    /\ automation_data_list = << >>
    /\ als_file = << >>
    /\ NoteInputsIdle
    /\ LanesIdle
    /\ DecodeIdle
    /\ BatchIdle

\* real_bpm = xm_info['bpm'] * (6.0 / xm_info['tempo']) raises ZeroDivisionError
\* for speed 0 and the conversion ends there; otherwise the track loop starts
\* with track_index = 0 and global_next_id = 100000
StartAssembly ==
    /\ pc = "loaded"
    /\ IF xm_info.tempo = 0
       THEN /\ pc' = "failed"
            /\ UNCHANGED << track_index, global_next_id >>
       ELSE /\ pc' = "populate"
            /\ track_index' = 0
            /\ global_next_id' = GlobalFirstId
    /\ UNCHANGED << noteVars, laneVars, decodeVars, xm_info, enable_pan_automation,
                    enable_sample_offset, instruments_with_9xx, simpler_template,
                    live_set, automation_data_list, als_file, batchVars >>

\* variant: the planned tracks fill the template from its last track on
PopulateTrackFromLast ==
    /\ pc = "populate"
    /\ track_index < Len(tracks_to_create)
    /\ track_index < Len(live_set.tracks)
    /\ LET track_info == tracks_to_create[track_index + 1]
           slot == Len(live_set.tracks) - track_index
           use_simpler == enable_sample_offset
                          /\ track_info.instrument \in instruments_with_9xx
       IN  \E r \in { PopulateOne(live_set.tracks[slot], track_info,
                                  track_index, use_simpler, enable_pan_automation,
                                  simpler_template, global_next_id) } :
               /\ live_set' = [live_set EXCEPT !.tracks[slot] = r.track]
               /\ global_next_id' = r.next_id
               /\ automation_data_list' = automation_data_list \o r.automation_data
               /\ tracks_to_create' =
                      [tracks_to_create EXCEPT ![track_index + 1].track_element =
                           live_set.tracks[slot].slot]
    /\ track_index' = track_index + 1
    /\ UNCHANGED << pc, noteInputs, laneVars, decodeVars, xm_info,
                    enable_pan_automation, enable_sample_offset,
                    instruments_with_9xx, simpler_template, als_file,
                    batchVars >>

\* one iteration of "for track_info in tracks_to_create"
PopulateTrack ==
    /\ pc = "populate"
    /\ track_index < Len(tracks_to_create)
    /\ track_index < Len(live_set.tracks)
    /\ LET track_info == tracks_to_create[track_index + 1]
           use_simpler == enable_sample_offset
                          /\ track_info.instrument \in instruments_with_9xx
       IN  \E r \in { PopulateOne(live_set.tracks[track_index + 1], track_info,
                                  track_index, use_simpler, enable_pan_automation,
                                  simpler_template, global_next_id) } :
               /\ live_set' = [live_set EXCEPT !.tracks[track_index + 1] = r.track]
               /\ global_next_id' = r.next_id
               /\ automation_data_list' = automation_data_list \o r.automation_data
               /\ tracks_to_create' =
                      [tracks_to_create EXCEPT ![track_index + 1].track_element =
                           live_set.tracks[track_index + 1].slot]
    /\ track_index' = track_index + 1
    /\ UNCHANGED << pc, noteInputs, laneVars, decodeVars, xm_info,
                    enable_pan_automation, enable_sample_offset,
                    instruments_with_9xx, simpler_template, als_file,
                    batchVars >>

\* after the loop: a GroupTrack for every instrument with two filled tracks
CreateGroups ==
    /\ pc = "populate"
    /\ ~ (track_index < Len(tracks_to_create) /\ track_index < Len(live_set.tracks))
    /\ LET unique_instruments ==
               Sorted({ tracks_to_create[i].instrument : i \in DOMAIN tracks_to_create })
       IN  \E r \in { CreateGroupTracks(tracks_to_create, unique_instruments, 1,
                                        [tracks |-> live_set.tracks,
                                         next_group_id |-> GroupFirstId,
                                         global_next_id |-> global_next_id]) } :
               /\ live_set' = [live_set EXCEPT !.tracks = r.tracks]
               /\ global_next_id' = r.global_next_id
    /\ pc' = "grouped"
    /\ UNCHANGED << noteVars, laneVars, decodeVars, xm_info, enable_pan_automation,
                    enable_sample_offset, instruments_with_9xx, simpler_template,
                    track_index, automation_data_list, als_file, batchVars >>

\* "Removing unused tracks" and "Folding tracks and groups"
RemoveUnusedTracks ==
    /\ pc = "grouped"
    /\ live_set' = [live_set EXCEPT
                       !.tracks = remove_unused_tracks(live_set.tracks, tracks_to_create)]
    /\ pc' = "cleaned"
    /\ UNCHANGED << noteVars, laneVars, decodeVars, xm_info, enable_pan_automation,
                    enable_sample_offset, instruments_with_9xx, simpler_template,
                    track_index, global_next_id, automation_data_list, als_file,
                    batchVars >>

\* the tempo fields are rewritten and the playback position is reset
CorrectTempo ==
    /\ pc = "cleaned"
    /\ live_set' = [live_set EXCEPT
                       !.tempo_fields = correct_tempo(live_set.tempo_fields,
                                                      xm_info.bpm, xm_info.tempo),
                       !.current_time = 0,
                       !.anchor_time = 0,
                       !.other_time = 0]
    /\ pc' = "tempo_set"
    /\ UNCHANGED << noteVars, laneVars, decodeVars, xm_info, enable_pan_automation,
                    enable_sample_offset, instruments_with_9xx, simpler_template,
                    track_index, global_next_id, automation_data_list, als_file,
                    batchVars >>

\* NextPointeeId receives global_next_id and the document is written
SaveProject ==
    /\ pc = "tempo_set"
    /\ live_set' = [live_set EXCEPT !.next_pointee_id = global_next_id]
    /\ als_file' = live_set'
    /\ pc' = "saved"
    /\ UNCHANGED << noteVars, laneVars, decodeVars, xm_info, enable_pan_automation,
                    enable_sample_offset, instruments_with_9xx, simpler_template,
                    track_index, global_next_id, automation_data_list,
                    batchVars >>

\* "if enable_sample_offset and automation_data_list": the written file is
\* patched with the sample-start envelopes
AddSampleOffsetAutomations ==
    /\ pc = "saved"
    /\ enable_sample_offset /\ automation_data_list # << >>
    /\ als_file' = [als_file EXCEPT
                       !.tracks = add_sample_offset_automations(
                                      als_file.tracks, automation_data_list, 1,
                                      global_next_id)]
    /\ pc' = "done"
    /\ UNCHANGED << noteVars, laneVars, decodeVars, xm_info, enable_pan_automation,
                    enable_sample_offset, instruments_with_9xx, simpler_template,
                    live_set, track_index, global_next_id, automation_data_list,
                    batchVars >>

\* no sample-start automation to add: the saved file is final
CompleteConversion ==
    /\ pc = "saved"
    /\ ~ (enable_sample_offset /\ automation_data_list # << >>)
    /\ pc' = "done"
    /\ UNCHANGED << noteVars, laneVars, decodeVars, asmVars, batchVars >>

NextAsm ==
    \/ StartAssembly
    \/ PopulateTrack
    \/ CreateGroups
    \/ RemoveUnusedTracks
    \/ CorrectTempo
    \/ SaveProject
    \/ AddSampleOffsetAutomations
    \/ CompleteConversion

SpecAsm == InitAsm /\ [][NextAsm]_vars

(***************************************************************************)
(* The choice of the device: a file with 9xx cells is decoded, planned and *)
(* its tracks are populated.                                               *)
(***************************************************************************)
\* rows / channels that may hold a cell
DevicePositions == { << 0, 0 >>, << 4, 0 >>, << 0, 1 >> }

\* notes of samples 1 and 2 with and without effect 9xx
DeviceModCells ==
    { ModNoteCell(428, 1), ModNoteCell(428, 2),
      [period |-> 428, sample |-> 1, effect |-> 9, param |-> 16],
      [period |-> 381, sample |-> 2, effect |-> 9, param |-> 0] }

DeviceXmCells ==
    { XmNoteCell(49, 1), XmNoteCell(49, 2),
      [note |-> 49, instrument |-> 1, volume |-> None,
       effect_type |-> 9, effect_param |-> 16],
      [note |-> 51, instrument |-> 2, volume |-> None,
       effect_type |-> 9, effect_param |-> 0] }

InitDevice ==
    /\ pc = "start"
    /\ fmt \in { "mod", "xm" }
    /\ \E cs \in SUBSET DevicePositions :
          raw_cells \in [cs -> IF fmt = "mod" THEN DeviceModCells
                                             ELSE DeviceXmCells]
    /\ xm_rows = ModRows
    /\ pattern_order = << 0 >>
    /\ patterns = << >>
    /\ tracks_data = << >>
    /\ enable_merge_tracks = FALSE
    /\ tracks_to_create = << >>
    /\ xm_info = << >>
    /\ enable_pan_automation = FALSE
    /\ enable_sample_offset \in BOOLEAN
    /\ instruments_with_9xx = {}
    /\ simpler_template = SimplerBackwardRef
    /\ live_set = << >>
    /\ track_index = 0
    /\ global_next_id = 0
    /\ automation_data_list = << >>
    /\ als_file = << >>
    /\ LanesIdle
    /\ DecodeIdle
    /\ BatchIdle

\* live_set = LiveSet.from_file(template_path): a generated template holds
\* at least as many tracks as the plan; one spare track stands for the rest
LoadTemplate ==
    /\ pc = "planned"
    /\ live_set' = TemplateLiveSet(Len(tracks_to_create) + 1, 1)
    /\ pc' = "loaded"
    /\ UNCHANGED << noteVars, laneVars, decodeVars, xm_info, enable_pan_automation,
                    enable_sample_offset, instruments_with_9xx, simpler_template,
                    track_index, global_next_id, automation_data_list, als_file,
                    batchVars >>

NextDevice ==
    \/ ExtractPatterns
    \/ OrganizeTracks
    \/ PlanAllTracks
    \/ LoadTemplate
    \/ StartAssembly
    \/ PopulateTrack

SpecDevice == InitDevice /\ [][NextDevice]_vars

(***************************************************************************)
(* The loop of the sample: tracks of instruments with every loop type are  *)
(* populated with either device.                                           *)
(***************************************************************************)
\* the instruments of the sample table
LoopInstruments == 1..4

\* at most this many planned tracks
MaxLoopTracks == 2

\* note lists of a planned track: plain, and with a 9xx note
LoopNoteLists ==
    { << AsmNote(0, 400000, 60, None, None) >>,
      << AsmNote(0, 100000, 60, None, 128) >> }

\* tracks_to_create: up to MaxLoopTracks tracks, grouped by instrument
LoopPlans ==
    { [k \in DOMAIN c |->
          [instrument |-> c[k][1], channel |-> k - 1, notes |-> c[k][2],
           lane |-> None, track_element |-> None]] :
      c \in { s \in UNION { [1..n -> LoopInstruments \X LoopNoteLists] :
                              n \in 1..MaxLoopTracks } :
                 \A i \in 1..(Len(s) - 1) : s[i][1] <= s[i + 1][1] } }

\* an XM conversion at the head of the track loop
InitLoop ==
    /\ pc = "populate"
    /\ xm_info = [bpm |-> DefaultBpm, tempo |-> DefaultSpeed]
    /\ enable_pan_automation = FALSE
    /\ enable_sample_offset \in BOOLEAN
    /\ tracks_to_create \in LoopPlans
    /\ instruments_with_9xx =
           IF enable_sample_offset THEN OffsetInstruments(tracks_to_create)
           ELSE {}
    /\ simpler_template = SimplerBackwardRef
    /\ live_set = TemplateLiveSet(MaxLoopTracks, 1)
    /\ track_index = 0
    /\ global_next_id = GlobalFirstId
    /\ automation_data_list = << >>
    /\ als_file = << >>
    /\ NoteInputsIdle
    /\ LanesIdle
    /\ DecodeIdle
    /\ BatchIdle

NextLoop == PopulateTrack

SpecLoop == InitLoop /\ [][NextLoop]_vars

(***************************************************************************)
(* Groups and cleanup: plans with several instruments, some of them on     *)
(* several tracks, go through the track loop, the group loop, the removal  *)
(* of the unused tracks and the rest of the conversion.                    *)
(***************************************************************************)
\* at most this many planned tracks
MaxGroupTracks == 5

\* the instruments of the plan
GroupInstruments == 1..3

\* track counts of the template: fewer tracks than the longest plan, as
\* many, and more
GroupSlots == { 3, 5, 6 }

\* tracks_to_create: up to MaxGroupTracks tracks, grouped by instrument
GroupPlans ==
    { [k \in DOMAIN c |->
          [instrument |-> c[k], channel |-> k - 1,
           notes |-> << AsmNote(0, 400000, 60, None, None) >>,
           lane |-> None, track_element |-> None]] :
      c \in { s \in UNION { [1..n -> GroupInstruments] :
                              n \in 0..MaxGroupTracks } :
                 \A i \in 1..(Len(s) - 1) : s[i] <= s[i + 1] } }

\* a conversion at the head of the track loop
InitGroups ==
    /\ pc = "populate"
    /\ xm_info = [bpm |-> DefaultBpm, tempo |-> DefaultSpeed]
    /\ enable_pan_automation = FALSE
    /\ enable_sample_offset = FALSE
    /\ tracks_to_create \in GroupPlans
    /\ instruments_with_9xx = {}
    /\ simpler_template = SimplerBackwardRef
    /\ live_set \in { TemplateLiveSet(n, 1) : n \in GroupSlots }
    /\ track_index = 0
    /\ global_next_id = GlobalFirstId
    /\ automation_data_list = << >>
    /\ als_file = << >>
    /\ NoteInputsIdle
    /\ LanesIdle
    /\ DecodeIdle
    /\ BatchIdle

NextGroups ==
    \/ PopulateTrack
    \/ CreateGroups
    \/ RemoveUnusedTracks
    \/ CorrectTempo
    \/ SaveProject
    \/ CompleteConversion

SpecGroups == InitGroups /\ [][NextGroups]_vars

(***************************************************************************)
(* The XM decoder applied to one file: the 17 bytes of the identification  *)
(* text, the header fields, the pattern headers and one sample header per  *)
(* instrument.                                                             *)
(***************************************************************************)
MaxXmInstruments == 2

\* the identification text of an XM file
XmSignature == "Extended Module: "

\* first 17 bytes of the files tried
IdTexts == { XmSignature, "Extended module: ", "IMPM song title 1" }

\* sample lengths of the instruments of a file (0: no sample data)
XmSampleLists ==
    UNION { [1..n -> { 0, 8 }] : n \in 0..MaxXmInstruments }

XmFiles ==
    { [kind |-> "xm", id_text |-> t, num_channels |-> 4, num_patterns |-> p,
       default_bpm |-> h[1], default_tempo |-> h[2], sample_lengths |-> l] :
      t \in IdTexts, p \in 1..2, h \in XmHeaders, l \in XmSampleLists }

\* extract_samples_and_patterns of xm_parser.py: id_text is read and not
\* looked at; a sample is kept when it has data
extract_xm(file) ==
    LET HasData(smp) == smp.length > 0
    IN  [samples |->
             SelectSeq([i \in DOMAIN file.sample_lengths |->
                           [instrument |-> i, sample |-> 1,
                            length |-> file.sample_lengths[i]]], HasData),
         patterns |-> [i \in 1..file.num_patterns |->
                          [number |-> i - 1, rows |-> ModRows]],
         xm_info |-> [channels |-> file.num_channels,
                      tempo |-> file.default_tempo,
                      bpm |-> file.default_bpm]]

InitXmFile ==
    /\ pc = "xm_file"
    /\ decode_input \in XmFiles
    /\ decode_result = << >>
    /\ NotesIdle
    /\ LanesIdle
    /\ AsmIdle
    /\ BatchIdle

\* samples, patterns, xm_info = extract_xm(xm_path, samples_dir)
ExtractXm ==
    /\ pc = "xm_file"
    /\ decode_result' = extract_xm(decode_input)
    /\ pc' = "xm_read"
    /\ UNCHANGED << decode_input, noteVars, laneVars, asmVars, batchVars >>

\* "if not samples: return False"; otherwise the conversion goes on with
\* the decoded samples and patterns
CheckSamples ==
    /\ pc = "xm_read"
    /\ pc' = IF decode_result.samples = << >> THEN "failed" ELSE "decoded"
    /\ UNCHANGED << decodeVars, noteVars, laneVars, asmVars, batchVars >>

NextXmFile == ExtractXm \/ CheckSamples

SpecXmFile == InitXmFile /\ [][NextXmFile]_vars

(***************************************************************************)
(* Pan automation: one planned track whose notes carry 8xx values or none  *)
(* goes through one iteration of the track loop.                           *)
(***************************************************************************)
MaxPanNotes == 3

\* notes of one pitch at three times, without panning, panned to the
\* default of instrument 2 or panned right
PanNotes ==
    { AsmNote(t, QuarterBeat, 60, p, None) :
        t \in { 0, QuarterBeat, 2 * QuarterBeat }, p \in { None, 64, 192 } }

\* the note lists of a track, in the order of the plan
PanNoteLists ==
    { s \in UNION { [1..n -> PanNotes] : n \in 1..MaxPanNotes } :
         \A i \in 1..(Len(s) - 1) : s[i].time <= s[i + 1].time }

InitPan ==
    /\ pc = "populate"
    /\ xm_info = [bpm |-> DefaultBpm, tempo |-> DefaultSpeed]
    /\ enable_pan_automation = TRUE
    /\ enable_sample_offset = FALSE
    /\ \E instrument \in DecodedInstruments, notes \in PanNoteLists :
          tracks_to_create =
              << [instrument |-> instrument, channel |-> 0, notes |-> notes,
                  lane |-> None, track_element |-> None] >>
    /\ instruments_with_9xx = {}
    /\ simpler_template = SimplerBackwardRef
    /\ live_set = TemplateLiveSet(1, 1)
    /\ track_index = 0
    /\ global_next_id = GlobalFirstId
    /\ automation_data_list = << >>
    /\ als_file = << >>
    /\ NoteInputsIdle
    /\ LanesIdle
    /\ DecodeIdle
    /\ BatchIdle

NextPan == PopulateTrack

SpecPan == InitPan /\ [][NextPan]_vars

(***************************************************************************)
(* Envelopes of decoded tracks: an XM file whose cells carry 8xx and 9xx   *)
(* effects is decoded, planned in default or merge mode and converted to   *)
(* the end with pan automation enabled.                                    *)
(***************************************************************************)
\* rows / channels that may hold a cell
EnvelopePositions == { << 0, 0 >>, << 1, 0 >>, << 4, 0 >>, << 0, 1 >> }

\* notes of instrument 1: plain, panned right (8C0), with an offset (910),
\* and a plain note of instrument 2
EnvelopeXmCells ==
    { XmNoteCell(49, 1), XmNoteCell(49, 2),
      [note |-> 51, instrument |-> 1, volume |-> None,
       effect_type |-> 8, effect_param |-> 192],
      [note |-> 53, instrument |-> 1, volume |-> None,
       effect_type |-> 9, effect_param |-> 16] }

InitEnvelopes ==
    /\ pc = "start"
    /\ fmt = "xm"
    /\ \E cs \in SUBSET EnvelopePositions : raw_cells \in [cs -> EnvelopeXmCells]
    /\ xm_rows = ModRows
    /\ pattern_order \in { << 0 >>, << 0, 0 >> }
    /\ patterns = << >>
    /\ tracks_data = << >>
    /\ enable_merge_tracks = FALSE
    /\ tracks_to_create = << >>
    /\ xm_info = << >>
    /\ enable_pan_automation = TRUE
    /\ enable_sample_offset \in BOOLEAN
    /\ instruments_with_9xx = {}
    /\ simpler_template = SimplerBackwardRef
    /\ live_set = << >>
    /\ track_index = 0
    /\ global_next_id = 0
    /\ automation_data_list = << >>
    /\ als_file = << >>
    /\ LanesIdle
    /\ DecodeIdle
    /\ BatchIdle

NextEnvelopes ==
    \/ ExtractPatterns
    \/ OrganizeTracks
    \/ PlanAllTracks
    \/ LoadTemplate
    \/ StartAssembly
    \/ PopulateTrack
    \/ CreateGroups
    \/ RemoveUnusedTracks
    \/ CorrectTempo
    \/ SaveProject
    \/ AddSampleOffsetAutomations
    \/ CompleteConversion

SpecEnvelopes == InitEnvelopes /\ [][NextEnvelopes]_vars

(***************************************************************************)
(* The patch pass: plans whose tracks carry 9xx and 8xx notes go through   *)
(* the track loop, the groups, the cleanup and the save, and the written   *)
(* file receives its sample-start envelopes.                               *)
(***************************************************************************)
MaxPatchTracks == 3

\* template sizes: fewer tracks than the longest plan, more
PatchSlots == { 2, 4 }

\* note lists of a planned track: plain, with a 9xx note, with a 9xx note
\* and an 8xx note, with an 8xx note
PatchNoteLists ==
    { << AsmNote(0, 400000, 60, None, None) >>,
      << AsmNote(0, 100000, 60, None, 128), AsmNote(100000, 400000, 62, None, None) >>,
      << AsmNote(0, 100000, 60, None, 128), AsmNote(100000, 400000, 62, 64, None) >>,
      << AsmNote(100000, 100000, 60, 64, None), AsmNote(200000, 400000, 62, None, None) >> }

PatchPlans ==
    { [k \in DOMAIN c |->
          [instrument |-> c[k][1], channel |-> k - 1, notes |-> c[k][2],
           lane |-> None, track_element |-> None]] :
      c \in { s \in UNION { [1..n -> DecodedInstruments \X PatchNoteLists] :
                              n \in 1..MaxPatchTracks } :
                 \A i \in 1..(Len(s) - 1) : s[i][1] <= s[i + 1][1] } }

\* a conversion at the head of the track loop
InitPatch ==
    /\ pc = "populate"
    /\ xm_info = [bpm |-> DefaultBpm, tempo |-> DefaultSpeed]
    /\ enable_pan_automation \in BOOLEAN
    /\ enable_sample_offset \in BOOLEAN
    /\ tracks_to_create \in PatchPlans
    /\ instruments_with_9xx = OffsetInstruments(tracks_to_create)
    /\ simpler_template = SimplerBackwardRef
    /\ live_set \in { TemplateLiveSet(n, 1) : n \in PatchSlots }
    /\ track_index = 0
    /\ global_next_id = GlobalFirstId
    /\ automation_data_list = << >>
    /\ als_file = << >>
    /\ NoteInputsIdle
    /\ LanesIdle
    /\ DecodeIdle
    /\ BatchIdle

NextPatch ==
    \/ PopulateTrack
    \/ CreateGroups
    \/ RemoveUnusedTracks
    \/ CorrectTempo
    \/ SaveProject
    \/ AddSampleOffsetAutomations
    \/ CompleteConversion

SpecPatch == InitPatch /\ [][NextPatch]_vars

(***************************************************************************)
(* The commands: batch_convert.py (find_tracker_files, batch_convert,      *)
(* main) and the single-file main of xm2live.py.  A KeyboardInterrupt can  *)
(* be raised at any point of the run; only the call of                     *)
(* convert_xm_to_ableton sits inside a try block.                          *)
(***************************************************************************)
\* files.sort(key=lambda x: x.name.lower()): a before b in the sorted list
NameBefore(a, b) ==
    \/ a[1] < b[1]
    \/ a[1] = b[1] /\ a[2] = "mod" /\ b[2] = "xm"

\* find_tracker_files: the matches of the patterns *.xm, *.XM, *.mod and
\* *.MOD one after the other, sorted by lower-case name. Where Path.glob
\* ignores case, a file matches both spellings of its pattern and is in the
\* list twice.
RECURSIVE find_tracker_files(_, _)
find_tracker_files(found, ic) ==
    IF found = {} THEN << >>
    ELSE LET first == CHOOSE f \in found :
                          \A g \in found : g = f \/ NameBefore(f, g)
         IN  (IF ic THEN << first, first >> ELSE << first >>)
               \o find_tracker_files(found \ { first }, ic)

\* als_file of a source file: <project_dir>/<file_basename>.als, the same for
\* song.mod and song.xm of one directory
AlsOf(file) == file[1]

\* status of a process ended by an uncaught KeyboardInterrupt: 1, or death by
\* SIGINT (seen as 130) with the interpreters from 3.8 on
UncaughtInterruptStatus == { 1, 130 }

InitCommands ==
    /\ command \in { "batch", "single" }
    /\ pc = IF command = "batch" THEN "batch_start" ELSE "single_start"
    /\ IF command = "batch"
       THEN /\ directory \in { d \in SUBSET TrackerFiles :
                                  Cardinality(d) <= MaxFiles }
            /\ ignore_case \in BOOLEAN
            /\ existing_als \in SUBSET { AlsOf(f) : f \in directory }
            /\ template_exists \in BOOLEAN
       ELSE /\ directory = {}
            /\ ignore_case = FALSE
            /\ existing_als = {}
            /\ template_exists = TRUE
    /\ files = << >>
    /\ file_index = 0
    /\ success_count = 0
    /\ error_count = 0
    /\ skipped_count = 0
    /\ handled = << >>
    /\ interrupted = "no"
    /\ command_result = "none"
    /\ exit_status = None
    /\ NotesIdle
    /\ LanesIdle
    /\ DecodeIdle
    /\ AsmIdle

\* batch_convert up to the loop: the template check, the file search, the
\* counters
BatchStart ==
    /\ pc = "batch_start"
    /\ IF ~template_exists
       THEN /\ command_result' = "false"
            /\ pc' = "returned"
            /\ UNCHANGED files
       ELSE /\ files' = find_tracker_files(directory, ignore_case)
            /\ IF files' = << >>
               THEN command_result' = "false" /\ pc' = "returned"
               ELSE command_result' = "none" /\ pc' = "batch_loop"
    /\ file_index' = 0
    /\ success_count' = 0
    /\ error_count' = 0
    /\ skipped_count' = 0
    /\ UNCHANGED << noteVars, laneVars, decodeVars, asmVars, command,
                    ignore_case, directory,
                    template_exists, existing_als, handled, interrupted,
                    exit_status >>

\* the head of one loop iteration: the "[i/n]" line, the paths, and the
\* test "if os.path.exists(als_file)" that skips the file
BatchTakeFile ==
    /\ pc = "batch_loop"
    /\ file_index < Len(files)
    /\ file_index' = file_index + 1
    /\ handled' = Append(handled, files[file_index + 1])
    /\ IF AlsOf(files[file_index + 1]) \in existing_als
       THEN /\ skipped_count' = skipped_count + 1
            /\ pc' = "batch_loop"
       ELSE /\ pc' = "batch_converting"
            /\ UNCHANGED skipped_count
    /\ UNCHANGED << noteVars, laneVars, decodeVars, asmVars, command,
                    ignore_case, directory,
                    template_exists, files, success_count, error_count,
                    existing_als, interrupted, command_result, exit_status >>

\* convert_xm_to_ableton returns True (the project is written), returns
\* False, or raises an Exception
BatchConvertEnds ==
    /\ pc = "batch_converting"
    /\ \E outcome \in { "true", "false", "exception" } :
          IF outcome = "true"
          THEN /\ success_count' = success_count + 1
               /\ existing_als' = existing_als \cup { AlsOf(files[file_index]) }
               /\ UNCHANGED error_count
          ELSE /\ error_count' = error_count + 1
               /\ UNCHANGED << success_count, existing_als >>
    /\ pc' = "batch_loop"
    /\ UNCHANGED << noteVars, laneVars, decodeVars, asmVars, command,
                    ignore_case, directory,
                    template_exists, files, file_index, skipped_count, handled,
                    interrupted, command_result, exit_status >>

\* variant: the interrupt is counted as a failure of the file and the loop
\* goes on
BatchConvertInterruptedGoesOn ==
    /\ pc = "batch_converting"
    /\ interrupted' = "converting"
    /\ error_count' = error_count + 1
    /\ pc' = "batch_loop"
    /\ UNCHANGED << noteVars, laneVars, decodeVars, asmVars, command,
                    ignore_case, directory,
                    template_exists, files, file_index, success_count,
                    skipped_count, existing_als, handled, command_result,
                    exit_status >>

\* "except KeyboardInterrupt" of the loop: the interrupt came during the
\* conversion, before or after the project file was written
BatchConvertInterrupted ==
    /\ pc = "batch_converting"
    /\ interrupted' = "converting"
    /\ \E written \in BOOLEAN :
          existing_als' = IF written
                          THEN existing_als \cup { AlsOf(files[file_index]) }
                          ELSE existing_als
    /\ command_result' = "false"
    /\ pc' = "returned"
    /\ UNCHANGED << noteVars, laneVars, decodeVars, asmVars, command,
                    ignore_case, directory,
                    template_exists, files, file_index, success_count,
                    error_count, skipped_count, handled, exit_status >>

\* the end of the loop: the summary and "return error_count == 0"
BatchSummary ==
    /\ pc = "batch_loop"
    /\ file_index = Len(files)
    /\ command_result' = IF error_count = 0 THEN "true" ELSE "false"
    /\ pc' = "returned"
    /\ UNCHANGED << noteVars, laneVars, decodeVars, asmVars, command,
                    ignore_case, directory,
                    template_exists, files, file_index, success_count,
                    error_count, skipped_count, existing_als, handled,
                    interrupted, exit_status >>

\* a KeyboardInterrupt raised in batch_convert outside the try block (the
\* file search, the head of an iteration, the summary): nothing catches it
BatchInterruptedOutsideTry ==
    /\ pc \in { "batch_start", "batch_loop" }
    /\ interrupted' = "outside"
    /\ exit_status' \in UncaughtInterruptStatus
    /\ pc' = "exited"
    /\ UNCHANGED << noteVars, laneVars, decodeVars, asmVars, command,
                    ignore_case, directory,
                    template_exists, files, file_index, success_count,
                    error_count, skipped_count, existing_als, handled,
                    command_result >>

\* the try block of the single-file main around convert_xm_to_ableton
SingleConvert ==
    /\ pc = "single_start"
    /\ \E outcome \in { "true", "false", "exception", "interrupt" } :
          /\ command_result' = IF outcome = "true" THEN "true" ELSE "false"
          /\ interrupted' = IF outcome = "interrupt" THEN "converting" ELSE "no"
    /\ pc' = "returned"
    /\ UNCHANGED << noteVars, laneVars, decodeVars, asmVars, command,
                    ignore_case, directory,
                    template_exists, files, file_index, success_count,
                    error_count, skipped_count, existing_als, handled,
                    exit_status >>

\* sys.exit(0 if success else 1), and sys.exit(0) / sys.exit(1) of xm2live
CommandExit ==
    /\ pc = "returned"
    /\ exit_status' = IF command_result = "true" THEN 0 ELSE 1
    /\ pc' = "exited"
    /\ UNCHANGED << noteVars, laneVars, decodeVars, asmVars, command,
                    ignore_case, directory,
                    template_exists, files, file_index, success_count,
                    error_count, skipped_count, existing_als, handled,
                    interrupted, command_result >>

NextCommands ==
    \/ BatchStart
    \/ BatchTakeFile
    \/ BatchConvertEnds
    \/ BatchConvertInterrupted
    \/ BatchSummary
    \/ BatchInterruptedOutsideTry
    \/ SingleConvert
    \/ CommandExit

SpecCommands == InitCommands /\ [][NextCommands]_vars

(***************************************************************************)
(* The MOD speed / BPM scan alone, on two patterns with 0xF commands.      *)
(***************************************************************************)
\* cells of the scanned patterns: 0xF alone with a speed (3, the default 6)
\* or a BPM (the default 125, 140), 0xF on a note, and 0xF 00 on a note
TempoCells ==
    { [period |-> 0, sample |-> 0, effect |-> 15, param |-> 3],
      [period |-> 0, sample |-> 0, effect |-> 15, param |-> 6],
      [period |-> 0, sample |-> 0, effect |-> 15, param |-> 125],
      [period |-> 0, sample |-> 0, effect |-> 15, param |-> 140],
      [period |-> 428, sample |-> 1, effect |-> 15, param |-> 5],
      [period |-> 428, sample |-> 1, effect |-> 15, param |-> 0] }

\* where they may sit: channel 1 of row 0 is read before channel 0 of row 1
TempoPositions == { << 0, 1 >>, << 1, 0 >> }

\* the cells of one pattern
TempoPatternCells ==
    UNION { [ps -> TempoCells] : ps \in SUBSET TempoPositions }

\* play orders: one pattern, two patterns in both orders, a pattern without
\* commands first, and ten entries ahead of the pattern with the commands
TempoPlayOrders ==
    { << 0 >>, << 0, 1 >>, << 1, 0 >>, << 2, 1 >>,
      << 0, 0, 0, 0, 0, 0, 0, 0, 0, 0, 1 >> }

\* read_mod_patterns on max(pattern_order) + 1 patterns of which the first
\* two hold the cells c0 and c1
TempoPatterns(c0, c1, order) ==
    LET num_patterns ==
            (CHOOSE m \in { order[k] : k \in DOMAIN order } :
                 \A k \in DOMAIN order : order[k] <= m) + 1
    IN  [n \in 1..num_patterns |->
            [rows |-> ModRows,
             data |-> IF n = 1 THEN PatternData("mod", c0, ModRows)
                      ELSE IF n = 2 THEN PatternData("mod", c1, ModRows)
                      ELSE << >>]]

InitTempo ==
    /\ pc = "patterns_read"
    /\ fmt = "mod"
    /\ xm_rows = ModRows
    /\ pattern_order \in TempoPlayOrders
    /\ raw_cells \in TempoPatternCells
    /\ \E c1 \in TempoPatternCells :
          patterns = TempoPatterns(raw_cells, c1, pattern_order)
    /\ tracks_data = << >>
    /\ enable_merge_tracks = FALSE
    /\ tracks_to_create = << >>
    /\ LanesIdle
    /\ DecodeIdle
    /\ BatchIdle
    /\ AsmIdle

\* the scan that follows read_mod_patterns in extract_samples_and_patterns
ScanTempo ==
    /\ pc = "patterns_read"
    /\ xm_info' = ModTempo(patterns, pattern_order)
    /\ pc' = "tempo_scanned"
    /\ UNCHANGED << noteVars, laneVars, decodeVars, enable_pan_automation,
                    enable_sample_offset, instruments_with_9xx, simpler_template,
                    live_set, track_index, global_next_id, automation_data_list,
                    als_file, batchVars >>

NextTempo == ScanTempo

SpecTempo == InitTempo /\ [][NextTempo]_vars

(***************************************************************************)
(* The patch pass alone: a saved project of one Simpler track whose first  *)
(* note carries 9xx with parameter p, for a sample of length L.            *)
(***************************************************************************)
\* the notes of the track: the first with offset p, the second with offset
\* q or without the effect
OffsetNotes(p, q) ==
    << AsmNote(0, 100000, 60, None, p), AsmNote(100000, 400000, 62, None, q) >>

\* the plan entry, filled from template track 1
OffsetPlan(p, q) ==
    << [instrument |-> 1, channel |-> 0, notes |-> OffsetNotes(p, q),
        lane |-> None, track_element |-> 1] >>

\* the track loop on that entry (xm2live.py:2030-2092)
OffsetPopulated(p, q) ==
    PopulateOne(TemplateTrack(1, 1), OffsetPlan(p, q)[1], 0, TRUE, FALSE,
                SimplerBackwardRef, GlobalFirstId)

\* the document as written at xm2live.py:2385
OffsetSaved(p, q) ==
    [TemplateLiveSet(1, 1) EXCEPT
        !.tracks = remove_unused_tracks(<< OffsetPopulated(p, q).track >>,
                                        OffsetPlan(p, q)),
        !.tempo_fields = correct_tempo(@, 125, 6),
        !.current_time = 0, !.anchor_time = 0, !.other_time = 0,
        !.next_pointee_id = OffsetPopulated(p, q).next_id]

InitOffset ==
    /\ pc = "saved"
    /\ \E p \in 0..MaxOffsetParam, q \in { None, 64 }, length \in SampleLengths :
          /\ tracks_to_create = OffsetPlan(p, q)
          /\ live_set = OffsetSaved(p, q)
          /\ als_file = OffsetSaved(p, q)
          /\ global_next_id = OffsetPopulated(p, q).next_id
          /\ automation_data_list =
                 << [OffsetPopulated(p, q).automation_data[1] EXCEPT
                        !.sample_length = length] >>
    /\ xm_info = [bpm |-> 125, tempo |-> 6]
    /\ enable_pan_automation = FALSE
    /\ enable_sample_offset = TRUE
    /\ instruments_with_9xx = { 1 }
    /\ simpler_template = SimplerBackwardRef
    /\ track_index = 1
    /\ NoteInputsIdle
    /\ LanesIdle
    /\ DecodeIdle
    /\ BatchIdle

NextOffset == AddSampleOffsetAutomations

SpecOffset == InitOffset /\ [][NextOffset]_vars

(***************************************************************************)
(* Properties of the note builders and of the planner.                     *)
(***************************************************************************)
Organized == pc \in { "organized", "planned" }

\* time at which entry i of the play order starts: rows / 4 beats for every
\* earlier entry that names an existing pattern
RECURSIVE PatternStart(_)
PatternStart(i) ==
    IF i = 1 THEN 0
    ELSE PatternStart(i - 1)
         + (IF pattern_order[i - 1] < Len(patterns)
            THEN patterns[pattern_order[i - 1] + 1].rows * QuarterBeat ELSE 0)

\* the played pattern events: << entry of the play order, index in the pattern >>
Played ==
    { o \in (DOMAIN pattern_order) \X (0..(MaxEvents + 1)) :
         /\ pattern_order[o[1]] < Len(patterns)
         /\ o[2] \in DOMAIN patterns[pattern_order[o[1]] + 1].data }

PlayedEvent(o) == patterns[pattern_order[o[1]] + 1].data[o[2]]
PlayedTime(o) == PatternStart(o[1]) + PlayedEvent(o).row * QuarterBeat
IsRealNote(e) == ~e.is_volume_stop /\ e.note # None
EventInstrument(e) == IF fmt = "mod" THEN e.sample ELSE e.instrument

\* the notes of every (channel, instrument) list of tracks_data
OutputNotes ==
    { << ch, inst, k >> \in
          (DOMAIN tracks_data) \X (0..3) \X (1..(2 * (MaxEvents + 1))) :
          inst \in DOMAIN tracks_data[ch] /\ k \in DOMAIN tracks_data[ch][inst] }

TrackNote(x) == tracks_data[x[1]][x[2]][x[3]]

\* the duration C1 states for the real note played as o
StatedDuration(o) ==
    LET later == { PlayedTime(q) : q \in
                     { q \in Played :
                          /\ PlayedEvent(q).channel = PlayedEvent(o).channel
                          /\ (IsRealNote(PlayedEvent(q)) \/ PlayedEvent(q).is_volume_stop)
                          /\ PlayedTime(q) > PlayedTime(o) } }
    IN  IF later = {} THEN FourBeats
        ELSE Min((CHOOSE t \in later : \A u \in later : t <= u) - PlayedTime(o),
                 FourBeats)

\* C1: every real note lasts min(4 beats, gap to the next real note or
\* volume stop of its channel), 4 beats when none follows; no volume-stop
\* marker is an output note.
C1_DurationToNextNoteOrStop ==
    Organized =>
        /\ \A o \in Played :
              IsRealNote(PlayedEvent(o)) =>
                  \E x \in OutputNotes :
                      /\ x[1] = PlayedEvent(o).channel
                      /\ x[2] = EventInstrument(PlayedEvent(o))
                      /\ TrackNote(x).time = PlayedTime(o)
                      /\ TrackNote(x).duration = StatedDuration(o)
        /\ \A x \in OutputNotes :
              ~ \E q \in Played :
                    /\ PlayedEvent(q).is_volume_stop
                    /\ PlayedEvent(q).channel = x[1]
                    /\ PlayedTime(q) = TrackNote(x).time

\* C2: every built note has time >= 0 and 0 < duration <= 4 beats.
C2_TimeAndDurationPositive ==
    Organized =>
        \A x \in OutputNotes :
            /\ TrackNote(x).time >= 0
            /\ TrackNote(x).duration > 0
            /\ TrackNote(x).duration <= FourBeats

\* a two-entry play order was played, and both a shortened note and a later
\* note capped at 4 beats came out
C2_Witness ==
    /\ pc = "organized"
    /\ Len(pattern_order) = 2
    /\ \E x \in OutputNotes : TrackNote(x).duration < FourBeats
    /\ \E x \in OutputNotes : TrackNote(x).duration = FourBeats /\ TrackNote(x).time > 0

\* C3: in every planned track no two notes overlap (0.001-beat tolerance).
C3_NoOverlapInTrack ==
    pc = "planned" =>
        \A t \in DOMAIN tracks_to_create :
            \A a, b \in DOMAIN tracks_to_create[t].notes :
                a # b =>
                    LET na == tracks_to_create[t].notes[a]
                        nb == tracks_to_create[t].notes[b]
                    IN  \/ na.time + na.duration <= nb.time + OverlapMargin
                        \/ nb.time + nb.duration <= na.time + OverlapMargin

\* merge mode built two lanes for one instrument, one of them with two notes
C3_Witness ==
    /\ pc = "planned"
    /\ enable_merge_tracks
    /\ \E t, u \in DOMAIN tracks_to_create :
          /\ t # u
          /\ tracks_to_create[t].instrument = tracks_to_create[u].instrument
          /\ Len(tracks_to_create[t].notes) >= 2

\* two notes overlap: neither ends by the other's start (0.001-beat margin)
NotesOverlap(a, b) ==
    ~ ( \/ a.time + a.duration <= b.time + OverlapMargin
        \/ b.time + b.duration <= a.time + OverlapMargin )

\* lanes in use before note i is placed, under the lane assignment a
LanesBefore(a, i) ==
    IF i = 1 THEN 1
    ELSE LET used == { a[j] : j \in 1..(i - 1) }
         IN  CHOOSE m \in used : \A u \in used : u <= m

\* lane l accepts note i: no earlier note placed in l overlaps it
LaneAccepts(a, i, l) ==
    \A j \in 1..(i - 1) : a[j] = l => ~NotesOverlap(lane_input[i], lane_input[j])

\* the notes assigned to lane l, in input order
LaneOf(a, l) ==
    LET idx == Sorted({ i \in DOMAIN lane_input : a[i] = l })
    IN  [k \in 1..Len(idx) |-> lane_input[idx[k]]]

\* C4: each note, in input order, goes to the lowest-indexed lane none of
\* whose notes overlaps it, and a new last lane is opened only when every
\* existing lane overlaps; so every note lands in exactly one lane, an input
\* without overlaps gives one lane equal to the input, and lane 0 is always
\* there (alone and empty for the empty input).
C4_FirstFitLanes ==
    pc = "distributed" =>
        /\ Len(lane_result) >= 1
        /\ (lane_input = << >> => lane_result = << << >> >>)
        /\ \E a \in [DOMAIN lane_input -> 1..Max(1, Len(lane_input))] :
              /\ \A i \in DOMAIN lane_input :
                    LET fits == { l \in 1..LanesBefore(a, i) : LaneAccepts(a, i, l) }
                    IN  IF fits = {} THEN a[i] = LanesBefore(a, i) + 1
                        ELSE a[i] \in fits /\ \A l \in fits : a[i] <= l
              /\ Len(lane_result) = Max(1, LanesBefore(a, Len(lane_input) + 1))
              /\ \A l \in DOMAIN lane_result : lane_result[l] = LaneOf(a, l)
        /\ ((\A i, j \in DOMAIN lane_input :
                 i # j => ~NotesOverlap(lane_input[i], lane_input[j]))
             => lane_result = << lane_input >>)

\* three notes were distributed: two spanning [0,1) went to two lanes and a
\* later one joined lane 0 although lane 1 would accept it too
C4_Witness ==
    /\ pc = "distributed"
    /\ Len(lane_input) = 3
    /\ lane_input[1].time = 0 /\ lane_input[1].duration = 100000
    /\ lane_input[2].time = 0 /\ lane_input[2].duration = 100000
    /\ Len(lane_result) = 2
    /\ Len(lane_result[1]) = 2
    /\ lane_result[2] = << lane_input[2] >>

\* C8: M.K., M!K!, FLT4, 4CHN give 31 samples / 4 channels, 6CHN 31 / 6,
\* FLT8 and 8CHN 31 / 8, every other 4-byte value 15 / 4, and read_mod_header
\* and extract_samples_and_patterns report the same counts.
C8_SignatureCounts ==
    (pc = "decoded" /\ decode_input.kind = "signature") =>
        LET b == decode_input.bytes
            stated ==
                IF b \in { Sig_MK, Sig_MK2, Sig_FLT4, Sig_4CHN }
                THEN [num_samples |-> 31, num_channels |-> 4]
                ELSE IF b = Sig_6CHN THEN [num_samples |-> 31, num_channels |-> 6]
                ELSE IF b \in { Sig_FLT8, Sig_8CHN }
                THEN [num_samples |-> 31, num_channels |-> 8]
                ELSE [num_samples |-> 15, num_channels |-> 4]
        IN  /\ decode_result.header = stated
            /\ decode_result.extract = stated

\* the 6CHN signature was decoded
C8_Witness ==
    /\ pc = "decoded"
    /\ decode_input.kind = "signature"
    /\ decode_input.bytes = Sig_6CHN
    /\ decode_result.header.num_channels = 6

\* table periods within 10 of period p
NearEntries(p) ==
    { i \in 1..Len(PERIOD_TABLE) : Abs(PERIOD_TABLE[i][1] - p) <= PeriodTolerance }

\* C9: a period in 1..4095 within 10 of a table entry gives the MIDI note of
\* a nearest entry (856 and 860 give 48); a period farther than 10 from every
\* entry gives the closed-form value (2000 gives 117), which is no table
\* value; period 0 gives no note.
C9_PeriodToMidi ==
    (pc = "decoded" /\ decode_input.kind = "period") =>
        LET p == decode_input.period
            m == decode_result.midi_note
        IN  /\ (p = 0 => m = None)
            /\ (p >= 1 /\ NearEntries(p) # {} =>
                    \E i \in NearEntries(p) :
                        /\ \A j \in 1..Len(PERIOD_TABLE) :
                              Abs(PERIOD_TABLE[i][1] - p) <= Abs(PERIOD_TABLE[j][1] - p)
                        /\ m = PERIOD_TABLE[i][2])
            /\ (p >= 1 /\ NearEntries(p) = {} =>
                    /\ m = FormulaMidi(p)
                    /\ \A i \in 1..Len(PERIOD_TABLE) : m # PERIOD_TABLE[i][2])
            /\ (p \in { 856, 860 } => m = 48)
            /\ (p = 2000 => m = 117)

\* a period exactly 10 away from its nearest table entry was converted
C9_Witness ==
    /\ pc = "decoded"
    /\ decode_input.kind = "period"
    /\ decode_input.period = 866
    /\ decode_result.midi_note = 48

(***************************************************************************)
(* Properties of the assembled document.                                   *)
(***************************************************************************)
\* the Id attributes of one track, each with whether the run issued it: the
\* track's own Id (issued for a GroupTrack), the Mixer Pan target of the
\* template, the elements of the device, the envelopes and their events
TrackIds(t) ==
    << [id |-> t.Id, issued |-> t.tag = "GroupTrack"] >>
    \o (IF t.pan_target = None THEN << >>
        ELSE << [id |-> t.pan_target, issued |-> FALSE] >>)
    \o [k \in 1..Len(SelectSeq(t.device_elements, LAMBDA e : e.Id # None)) |->
           [id |-> SelectSeq(t.device_elements, LAMBDA e : e.Id # None)[k].Id,
            issued |-> TRUE]]
    \o Flatten([k \in DOMAIN t.envelopes |->
                   << [id |-> t.envelopes[k].Id, issued |-> TRUE] >>
                   \o [j \in DOMAIN t.envelopes[k].events |->
                          [id |-> t.envelopes[k].events[j].Id, issued |-> TRUE]]])

\* every Id attribute of a document
DocumentIds(doc) == Flatten([p \in DOMAIN doc.tracks |-> TrackIds(doc.tracks[p])])

\* the PointeeId values of a document: envelope targets and device PointeeIds
DocumentPointeeIds(doc) ==
    UNION { { t.envelopes[k].PointeeId : k \in DOMAIN t.envelopes }
            \cup { t.device_elements[k].Value :
                      k \in { j \in DOMAIN t.device_elements :
                                t.device_elements[j].tag = "PointeeId" } } :
            t \in { doc.tracks[p] : p \in DOMAIN doc.tracks } }

\* no issued Id equals another Id of the document
IssuedIdsUnique(doc) ==
    LET ids == DocumentIds(doc)
    IN  \A p, q \in DOMAIN ids :
            (p # q /\ ids[p].issued) => ids[p].id # ids[q].id

\* C5: every identifier issued during the conversion is unique in the whole
\* document and differs from every identifier of the template, for every
\* template: checked on the document with all template tracks still in it
\* (after the groups are made) and on the final file.
C5_IssuedIdsUnique ==
    /\ (pc = "grouped" => IssuedIdsUnique(live_set))
    /\ (pc = "done" => IssuedIdsUnique(als_file))

\* C6: on completion NextPointeeId of the written file is greater than
\* every identifier issued during the run, those of the patch pass included.
C6_NextPointeeIdPastIssued ==
    pc = "done" =>
        \A k \in DOMAIN DocumentIds(als_file) :
            DocumentIds(als_file)[k].issued =>
                als_file.next_pointee_id > DocumentIds(als_file)[k].id

\* C7: in the final document every PointeeId equals the Id of exactly one
\* declared element.
C7_PointeeIdsResolve ==
    pc = "done" =>
        \A ref \in DocumentPointeeIds(als_file) :
            Cardinality({ k \in DOMAIN DocumentIds(als_file) :
                            DocumentIds(als_file)[k].id = ref }) = 1

\* the tempo fields of `doc` that hold 120 in the template hold bpm * 6 / speed
\* and the playback position is 0
TempoCorrected(doc) ==
    /\ \A i \in DOMAIN doc.tempo_fields :
          TemplateLiveSet(1, 1).tempo_fields[i].Value = << 120, 1 >> =>
              /\ doc.tempo_fields[i].Value[1] * xm_info.tempo
                     = xm_info.bpm * 6 * doc.tempo_fields[i].Value[2]
              /\ (xm_info = [bpm |-> 125, tempo |-> 6] =>
                     doc.tempo_fields[i].Value = << 125, 1 >>)
              /\ (xm_info = [bpm |-> 125, tempo |-> 3] =>
                     doc.tempo_fields[i].Value = << 250, 1 >>)
    /\ doc.current_time = 0
    /\ doc.anchor_time = 0
    /\ doc.other_time = 0

\* C10: for every header BPM and every header speed the conversion leaves
\* bpm * 6 / speed in every tempo field that held 120 and the playback
\* position at 0.
C10_TempoCorrected ==
    /\ (pc = "done" => TempoCorrected(als_file))
    /\ (pc = "failed" => TempoCorrected(live_set))

\* the same for the runs that reach the end (header speed other than 0)
TempoCorrectedWhenCompleted == pc = "done" => TempoCorrected(als_file)

(***************************************************************************)
(* Properties of the sample-start automation.                              *)
(***************************************************************************)
\* v = clamp((p * 256 / 2) / L, 0, 1) for a fraction v, 0 when L is 0
IsStatedSampleStart(v, p, length) ==
    /\ v[2] > 0
    /\ IF length = 0 THEN v[1] = 0
       ELSE IF p * 128 >= length THEN v[1] = v[2]
       ELSE v[1] * length = p * 128 * v[2]

\* the envelope the patch pass wrote for entry d of automation_data_list
OffsetEnvelope(d) ==
    als_file.tracks[MidiTrackPositions(als_file.tracks)[d.track_index + 1]].envelopes[1]

\* C11: after the patch pass each note of an automated track owns two
\* automation points, at its start and at its end, both with the value
\* clamp((p * 256 / 2) / L, 0, 1) when the note carries offset p (1/4 for
\* p = 128 and L = 65536, 0 for L = 0) and 0 when it carries none; every
\* value of the envelope lies in [0, 1].
C11_SampleStartValues ==
    pc = "done" =>
        \A i \in DOMAIN automation_data_list :
            LET d == automation_data_list[i]
                events == OffsetEnvelope(d).events
                notes == SortByTime(d.notes)
            IN  /\ Len(events) = 1 + 2 * Len(notes)
                /\ \A j \in DOMAIN events :
                      /\ 0 <= events[j].Value[1]
                      /\ events[j].Value[1] <= events[j].Value[2]
                /\ \A k \in DOMAIN notes :
                      /\ events[2 * k].Time = notes[k].time
                      /\ events[2 * k + 1].Time = notes[k].time + notes[k].duration
                      /\ events[2 * k].Value = events[2 * k + 1].Value
                      /\ IF notes[k].sample_offset_xm = None
                         THEN events[2 * k].Value[1] = 0
                         ELSE IsStatedSampleStart(events[2 * k].Value,
                                                  notes[k].sample_offset_xm,
                                                  d.sample_length)
                      /\ (notes[k].sample_offset_xm = 128 /\ d.sample_length = 65536
                             => events[2 * k].Value = << 1, 4 >>)

\* a patched file whose first note has offset 128 on a sample of 65536
\* frames (value 1/4) and whose second note has no offset (value 0)
C11_Witness ==
    /\ pc = "done"
    /\ automation_data_list # << >>
    /\ automation_data_list[1].sample_length = 65536
    /\ automation_data_list[1].notes[1].sample_offset_xm = 128
    /\ automation_data_list[1].notes[2].sample_offset_xm = None
    /\ OffsetEnvelope(automation_data_list[1]).events[2].Value = << 1, 4 >>
    /\ OffsetEnvelope(automation_data_list[1]).events[4].Value = << 0, 1 >>

(***************************************************************************)
(* Properties of the MOD speed commands.                                   *)
(***************************************************************************)
\* the file is a MOD of one pattern, played once, whose only note is at row
\* 0, channel 0, instrument 1, with a 0xF command of parameter 3 at row 1
SpeedCommandExample ==
    /\ fmt = "mod"
    /\ pattern_order = << 0 >>
    /\ \E ch \in { 0, 1 } :
          /\ DOMAIN raw_cells = { << 0, 0 >>, << 1, ch >> }
          /\ raw_cells[<< 1, ch >>] = [period |-> 0, sample |-> 0, effect |-> 15, param |-> 3]
    /\ raw_cells[<< 0, 0 >>].period > 0
    /\ raw_cells[<< 0, 0 >>].sample = 1

\* the example gives one track, for instrument 1, with one note at time 0
\* that lasts 4 beats, and the tempo 250
SpeedCommandExampleResult ==
    /\ Len(tracks_to_create) = 1
    /\ tracks_to_create[1].instrument = 1
    /\ Len(tracks_to_create[1].notes) = 1
    /\ tracks_to_create[1].notes[1].time = 0
    /\ tracks_to_create[1].notes[1].duration = FourBeats
    /\ RealBpm(xm_info.bpm, xm_info.tempo) = << 250, 1 >>

\* no note of the organizer's output and no planned track comes from a cell
\* that holds only a 0xF command
NoNoteFromSpeedCell ==
    /\ \A x \in OutputNotes : TrackNote(x).note # None /\ x[2] # 0
    /\ \A t \in DOMAIN tracks_to_create :
          /\ tracks_to_create[t].instrument # 0
          /\ \A k \in DOMAIN tracks_to_create[t].notes :
                tracks_to_create[t].notes[k].note # None

\* every real note of a MOD keeps the duration the notes and volume stops of
\* its channel give it, 0xF cells left aside
SpeedCellKeepsDurations ==
    \A o \in Played :
        IsRealNote(PlayedEvent(o)) =>
            \E x \in OutputNotes :
                /\ x[1] = PlayedEvent(o).channel
                /\ x[2] = PlayedEvent(o).sample
                /\ TrackNote(x).time = PlayedTime(o)
                /\ TrackNote(x).duration = StatedDuration(o)

\* C12: a MOD of one pattern with one note (row 0, channel 0, instrument 1)
\* and a 0xF command of parameter 3 at row 1, on either channel, gives one
\* track for instrument 1 with one note at time 0 lasting 4 beats, and the
\* tempo 125 * 6 / 3 = 250; a 0xF cell without a note yields no note, no
\* track, and shortens no note of its channel.
C12_SpeedCellLeavesNotesAlone ==
    (fmt = "mod" /\ pc = "planned") =>
        /\ (SpeedCommandExample => SpeedCommandExampleResult)
        /\ NoNoteFromSpeedCell
        /\ SpeedCellKeepsDurations

\* the 0xF effects with a parameter above 0 among the first ten entries of
\* the play order: << entry of the play order, index in the pattern >>
TempoEffects ==
    { o \in (1..Min(Len(pattern_order), 10)) \X (1..4) :
         /\ pattern_order[o[1]] < Len(patterns)
         /\ o[2] \in DOMAIN patterns[pattern_order[o[1]] + 1].data
         /\ patterns[pattern_order[o[1]] + 1].data[o[2]].effect = 15
         /\ patterns[pattern_order[o[1]] + 1].data[o[2]].effect_param > 0 }

\* the parameter of the earliest of them
FirstTempoParam ==
    LET first == CHOOSE o \in TempoEffects :
                     \A q \in TempoEffects :
                         o[1] < q[1] \/ (o[1] = q[1] /\ o[2] <= q[2])
    IN  patterns[pattern_order[first[1]] + 1].data[first[2]].effect_param

\* C13: the speed and BPM of a MOD come only from the earliest 0xF effect
\* with a parameter above 0 in the first ten entries of the play order: up
\* to 31 it is the speed and the BPM stays 125, above 31 it is the BPM and
\* the speed stays 6, and without one the values are 6 and 125; no later
\* effect counts, also when the first one sets 6 or 125.
C13_FirstTempoEffectWins ==
    pc = "tempo_scanned" =>
        IF TempoEffects = {}
        THEN xm_info = [bpm |-> 125, tempo |-> 6]
        ELSE IF FirstTempoParam <= 31
        THEN xm_info = [bpm |-> 125, tempo |-> FirstTempoParam]
        ELSE xm_info = [bpm |-> FirstTempoParam, tempo |-> 6]

\* the same for the files whose first effect sets neither 6 nor 125
FirstTempoEffectWinsUnlessDefault ==
    (pc = "tempo_scanned" /\ TempoEffects # {} /\ FirstTempoParam \notin { 6, 125 })
        => C13_FirstTempoEffectWins

(***************************************************************************)
(* Properties of the commands.                                             *)
(***************************************************************************)
\* the files the loop has taken up are the first file_index entries of the
\* sorted list, and no file is in the list twice
HandledInOrder ==
    /\ \A i, j \in DOMAIN files : i < j => NameBefore(files[i], files[j])
    /\ file_index <= Len(files)
    /\ handled = SubSeq(files, 1, file_index)

\* C14: in batch_convert a conversion that returns false or raises an
\* exception does not end the run: the files are taken up one after the
\* other in sorted order, each once, and a run that ends without an interrupt
\* has taken up every file found and counted each in exactly one of success,
\* failure and skipped.
C14_EveryFileCountedOnce ==
    command = "batch" =>
        /\ HandledInOrder
        /\ interrupted = "no" =>
              success_count + error_count + skipped_count
                = file_index - (IF pc = "batch_converting" THEN 1 ELSE 0)
        /\ (pc = "exited" /\ interrupted = "no" /\ template_exists) =>
              /\ { handled[i] : i \in DOMAIN handled } = directory
              /\ success_count + error_count + skipped_count
                    = Cardinality(directory)

\* the same where Path.glob tells upper case from lower case
EveryFileCountedOnceCaseSensitive ==
    ~ignore_case => C14_EveryFileCountedOnce

\* a run over three files ended without interrupt with one success, one
\* failure and one skipped file
FailureDoesNotStopRun ==
    /\ command = "batch"
    /\ ~ignore_case
    /\ pc = "exited"
    /\ interrupted = "no"
    /\ Len(files) = 3
    /\ success_count = 1
    /\ error_count = 1
    /\ skipped_count = 1

\* C15: the status of the ended process is 0 or 1; for the single-file
\* command it is 0 exactly when convert_xm_to_ableton returned true; for the
\* batch command it is 0 exactly when the template was there, a tracker file
\* was found, no file failed and no interrupt occurred.
C15_ExitStatus ==
    pc = "exited" =>
        /\ exit_status \in { 0, 1 }
        /\ command = "single" =>
              (exit_status = 0 <=> (command_result = "true" /\ interrupted = "no"))
        /\ command = "batch" =>
              (exit_status = 0 <=>
                  (template_exists /\ files # << >> /\ error_count = 0
                   /\ interrupted = "no"))

\* the same for the runs in which no interrupt is raised outside the call of
\* convert_xm_to_ableton
ExitStatusUnlessInterruptedOutside ==
    interrupted # "outside" => C15_ExitStatus

\* C16: once an interrupt has arrived during the conversion of file i, no
\* further file is taken up, the counters and the project files written
\* before stay as they are, the result is a failure and the status is 1.
C16_InterruptEndsQueue ==
    [][ (command' = "batch" /\ interrupted' = "converting") =>
            /\ handled' = handled
            /\ handled' = SubSeq(files', 1, file_index')
            /\ file_index' = file_index
            /\ success_count' = success_count
            /\ error_count' = error_count
            /\ skipped_count' = skipped_count
            /\ existing_als \subseteq existing_als'
            /\ command_result' = "false"
            /\ exit_status' \in { None, 1 } ]_vars

\* the second of three files was interrupted after the first had been
\* converted, and the process ended with status 1
C16_Witness ==
    /\ command = "batch"
    /\ pc = "exited"
    /\ interrupted = "converting"
    /\ Len(files) = 3
    /\ file_index = 2
    /\ success_count = 1
    /\ Cardinality(existing_als) >= 1
    /\ exit_status = 1

(***************************************************************************)
(* Properties of the device choice.                                        *)
(***************************************************************************)
\* the track loop has gone through the whole plan
AllPopulated ==
    /\ pc = "populate"
    /\ track_index = Len(tracks_to_create)

\* the instruments of the note cells of the played pattern that carry
\* effect 0x09
PlayedOffsetInstruments ==
    LET read == { c \in DOMAIN raw_cells : c[1] < xm_rows }
    IN  IF fmt = "mod"
        THEN { raw_cells[c].sample :
                 c \in { d \in read : /\ raw_cells[d].period > 0
                                      /\ raw_cells[d].sample > 0
                                      /\ raw_cells[d].effect = 9 } }
        ELSE { raw_cells[c].instrument :
                 c \in { d \in read : /\ raw_cells[d].note \in 1..96
                                      /\ raw_cells[d].instrument > 0
                                      /\ raw_cells[d].effect_type = 9 } }

\* the device of every populated track is the Simpler exactly when
\* --sample-offset is given and a note of the track's instrument carries
\* effect 9xx
DeviceFollowsEffect ==
    \A i \in 1..track_index :
        (live_set.tracks[i].device = "OriginalSimpler")
          <=> (enable_sample_offset
               /\ tracks_to_create[i].instrument \in PlayedOffsetInstruments)

\* C17: with --sample-offset, for MOD and for XM input, the tracks of an
\* instrument receive the Simpler exactly when a played note of the
\* instrument carries effect 0x09, and the MultiSampler otherwise and
\* without --sample-offset; the tracks of one instrument receive the same
\* device.
C17_DeviceFollowsEffect ==
    (pc = "populate") =>
        /\ DeviceFollowsEffect
        /\ \A i, j \in 1..track_index :
              tracks_to_create[i].instrument = tracks_to_create[j].instrument
                => live_set.tracks[i].device = live_set.tracks[j].device

\* the same for XM input
DeviceFollowsEffectXm ==
    fmt = "xm" => C17_DeviceFollowsEffect

\* an XM whose instrument 1 has two tracks with the Simpler and whose
\* instrument 2 has a track with the MultiSampler
DeviceChosenPerInstrument ==
    /\ AllPopulated
    /\ fmt = "xm"
    /\ enable_sample_offset
    /\ \E i, j, k \in 1..track_index :
          /\ i # j
          /\ tracks_to_create[i].instrument = 1
          /\ tracks_to_create[j].instrument = 1
          /\ tracks_to_create[k].instrument = 2
          /\ live_set.tracks[i].device = "OriginalSimpler"
          /\ live_set.tracks[j].device = "OriginalSimpler"
          /\ live_set.tracks[k].device = "MultiSampler"

(***************************************************************************)
(* Properties of the loop settings.                                        *)
(***************************************************************************)
\* C18: a populated track with the Simpler has no ping-pong loop: for a
\* sample with loop type > 0 the mode written is 1 (forward), with the loop
\* start and the loop end (start + length) of the sample, and for loop type
\* 0 the loop is switched off and no mode is written; a populated track with
\* the MultiSampler has the loop type of its sample as mode.
C18_SimplerLoopForward ==
    \A i \in 1..track_index :
        LET track == live_set.tracks[i]
            sample_info == SampleOf(tracks_to_create[i].instrument)
        IN  /\ track.device = "OriginalSimpler" =>
                  /\ track.loop.Mode # 2
                  /\ IF sample_info.loop_type > 0
                     THEN /\ track.loop.Mode = 1
                          /\ track.loop.LoopOn = "true"
                          /\ track.loop.LoopModulatorsOn = "true"
                          /\ track.loop.Start = sample_info.loop_start
                          /\ track.loop.End = sample_info.loop_start
                                               + sample_info.loop_length
                     ELSE /\ track.loop.LoopModulatorsOn = "false"
                          /\ track.loop.Mode = None
            /\ (track.device = "MultiSampler" /\ sample_info.loop_type > 0) =>
                  /\ track.loop.Mode = sample_info.loop_type
                  /\ track.loop.Start = sample_info.loop_start
                  /\ track.loop.End = sample_info.loop_start
                                       + sample_info.loop_length

\* a sample whose loop type has the ping-pong bit, on a track with the
\* Simpler and written as forward, next to a ping-pong sample on a track
\* with the MultiSampler
C18_Witness ==
    /\ pc = "populate"
    /\ track_index = 2
    /\ \E i, j \in 1..track_index :
          /\ live_set.tracks[i].device = "OriginalSimpler"
          /\ SampleOf(tracks_to_create[i].instrument).loop_type \in { 2, 3 }
          /\ live_set.tracks[i].loop.Mode = 1
          /\ live_set.tracks[j].device = "MultiSampler"
          /\ SampleOf(tracks_to_create[j].instrument).loop_type = 2
          /\ live_set.tracks[j].loop.Mode = 2

(***************************************************************************)
(* Properties of the groups and of the cleanup.                            *)
(***************************************************************************)
\* the template tracks filled for an instrument, in the order of the plan
PopulatedSlots(instrument) ==
    LET Filled(t) == t.track_element # None /\ t.instrument = instrument
        filled == SelectSeq(tracks_to_create, Filled)
    IN  [i \in DOMAIN filled |-> filled[i].track_element]

\* positions of the GroupTracks in the document
GroupPositions ==
    { p \in DOMAIN live_set.tracks : live_set.tracks[p].tag = "GroupTrack" }

\* the group at position p is the one of the instrument: the tracks of the
\* instrument follow it directly, in the order of the plan, refer to its Id
\* and send their audio to it
IsGroupOf(p, instrument) ==
    LET slots == PopulatedSlots(instrument)
    IN  /\ p + Len(slots) <= Len(live_set.tracks)
        /\ \A i \in DOMAIN slots :
              /\ live_set.tracks[p + i].tag = "MidiTrack"
              /\ live_set.tracks[p + i].slot = slots[i]
              /\ live_set.tracks[p + i].TrackGroupId = live_set.tracks[p].Id
              /\ live_set.tracks[p + i].output = "AudioOut/GroupTrack"

\* C19: after the group loop every instrument with two or more populated
\* tracks has exactly one GroupTrack, directly before its first track; its
\* tracks follow the group without gap, carry the Id of the group as
\* TrackGroupId and are routed to it; the track of an instrument with one
\* populated track keeps TrackGroupId -1 and its output; there is no other
\* GroupTrack and the Ids of the GroupTracks differ.
C19_OneGroupPerInstrument ==
    pc \in { "grouped", "cleaned" } =>
        /\ \A instrument \in GroupInstruments :
              IF Len(PopulatedSlots(instrument)) >= 2
              THEN Cardinality({ p \in GroupPositions :
                                   IsGroupOf(p, instrument) }) = 1
              ELSE \A p \in DOMAIN live_set.tracks :
                      (\E i \in DOMAIN PopulatedSlots(instrument) :
                          live_set.tracks[p].slot = PopulatedSlots(instrument)[i])
                      => /\ live_set.tracks[p].TrackGroupId = NoTrackGroup
                         /\ live_set.tracks[p].output = "AudioOut/Main"
        /\ Cardinality(GroupPositions)
             = Cardinality({ instrument \in GroupInstruments :
                               Len(PopulatedSlots(instrument)) >= 2 })
        /\ \A p, q \in GroupPositions :
              p # q => live_set.tracks[p].Id # live_set.tracks[q].Id

\* two instruments with a group each and a third with a single track
C19_Witness ==
    /\ pc = "grouped"
    /\ Cardinality(GroupPositions) = 2
    /\ \E instrument \in GroupInstruments :
          Len(PopulatedSlots(instrument)) = 1
    /\ \E p \in GroupPositions : p > 1

\* the MidiTracks of a list of tracks / its other tracks
MidiTracksOf(tracks) ==
    LET IsMidi(t) == t.tag = "MidiTrack" IN SelectSeq(tracks, IsMidi)

OtherTracksOf(tracks) ==
    LET IsOther(t) == t.tag # "MidiTrack" IN SelectSeq(tracks, IsOther)

\* the populated tracks of a list of tracks
PopulatedTracksOf(tracks) ==
    LET IsUsed(t) == t.tag = "MidiTrack"
                     /\ t.slot \in UsedTrackElements(tracks_to_create)
    IN  SelectSeq(tracks, IsUsed)

\* C20: the removal of the unused tracks comes after the group loop; it
\* leaves as MidiTracks exactly the populated tracks, in their order and
\* unchanged but for being folded, leaves the other tracks as they are, and
\* afterwards no track is armed.
C20_CleanupKeepsPopulated ==
    [][ pc' = "cleaned" =>
          /\ pc = "grouped"
          /\ MidiTracksOf(live_set'.tracks)
               = [i \in DOMAIN PopulatedTracksOf(live_set.tracks) |->
                     [PopulatedTracksOf(live_set.tracks)[i]
                         EXCEPT !.unfolded = FALSE]]
          /\ OtherTracksOf(live_set'.tracks) = OtherTracksOf(live_set.tracks)
          /\ \A p, q \in DOMAIN live_set'.tracks :
                (p < q /\ live_set'.tracks[p].slot # None
                       /\ live_set'.tracks[q].slot # None)
                  => live_set'.tracks[p].slot < live_set'.tracks[q].slot
          /\ \A p \in DOMAIN live_set'.tracks :
                ~ live_set'.tracks[p].armed ]_vars

\* a cleaned document with a group, three populated tracks and at least two
\* template tracks removed
C20_Witness ==
    /\ pc = "cleaned"
    /\ Cardinality(GroupPositions) = 1
    /\ Len(MidiTracksOf(live_set.tracks)) = 3
    /\ track_index = 3
    /\ \A p \in DOMAIN live_set.tracks :
          live_set.tracks[p].tag = "MidiTrack" => ~ live_set.tracks[p].unfolded

(***************************************************************************)
(* Properties of a template with fewer tracks than the plan.               *)
(***************************************************************************)
\* the first n planned tracks sit in the first n template tracks, the other
\* planned tracks in none
FirstPlannedPopulated(n) ==
    /\ \A k \in 1..n :
          /\ tracks_to_create[k].track_element = k
          /\ \E p \in DOMAIN live_set.tracks :
                /\ live_set.tracks[p].slot = k
                /\ live_set.tracks[p].notes = tracks_to_create[k].notes
    /\ \A k \in (n + 1)..Len(tracks_to_create) :
          tracks_to_create[k].track_element = None

\* C21: with S template tracks and P planned tracks the track loop fills
\* min(P, S) tracks: the k-th planned track sits in the k-th template track
\* for k up to min(P, S) and the other planned tracks in none; only filled
\* tracks are counted for a group and belong to one; the conversion does
\* not fail, and the saved document holds the min(P, S) filled tracks.
C21_TemplateTruncatesPlan ==
    /\ pc # "failed"
    /\ pc = "grouped" =>
          /\ track_index
               = Min(Len(tracks_to_create),
                     Len(MidiTracksOf(live_set.tracks)))
    /\ pc \in { "grouped", "cleaned", "tempo_set", "saved", "done" } =>
          /\ FirstPlannedPopulated(track_index)
          /\ Cardinality(GroupPositions)
               = Cardinality({ instrument \in GroupInstruments :
                                 Len(PopulatedSlots(instrument)) >= 2 })
          /\ \A p \in DOMAIN live_set.tracks :
                live_set.tracks[p].TrackGroupId # NoTrackGroup
                  => live_set.tracks[p].slot \in 1..track_index
    /\ pc \in { "cleaned", "tempo_set", "saved", "done" } =>
          Len(MidiTracksOf(live_set.tracks)) = track_index
    /\ pc \in { "saved", "done" } =>
          /\ als_file # << >>
          /\ Len(MidiTracksOf(als_file.tracks)) = track_index

\* a plan of five tracks on a template of three: the conversion is complete,
\* three tracks are filled, and the instrument of the third and fourth
\* planned track has no group
C21_Witness ==
    /\ pc = "done"
    /\ Len(tracks_to_create) = 5
    /\ track_index = 3
    /\ tracks_to_create[3].instrument = tracks_to_create[4].instrument
    /\ tracks_to_create[2].instrument # tracks_to_create[3].instrument
    /\ Len(MidiTracksOf(als_file.tracks)) = 3
    /\ live_set.tracks[Len(live_set.tracks)].TrackGroupId = NoTrackGroup

(***************************************************************************)
(* Properties of the patch pass.                                           *)
(***************************************************************************)
\* the patch pass has run: live_set is the document as it was written
Patched ==
    /\ pc = "done"
    /\ enable_sample_offset
    /\ automation_data_list # << >>

\* the positions of the written document that the patch pass looks up
TargetPositions ==
    { MidiTrackPositions(live_set.tracks)[automation_data_list[k].track_index + 1] :
        k \in DOMAIN automation_data_list }

\* s is the sequence t followed by one more element
OneAdded(s, t) ==
    /\ Len(s) = Len(t) + 1
    /\ SubSeq(s, 1, Len(t)) = t

\* the tracks outside the targets are as written, and a target track
\* differs from the written one in its envelopes only
PatchTouchesEnvelopesOfTargets ==
    Patched =>
        /\ Len(als_file.tracks) = Len(live_set.tracks)
        /\ [als_file EXCEPT !.tracks = live_set.tracks] = live_set
        /\ \A p \in DOMAIN live_set.tracks :
              IF p \in TargetPositions
              THEN [als_file.tracks[p] EXCEPT !.envelopes = << >>]
                     = [live_set.tracks[p] EXCEPT !.envelopes = << >>]
              ELSE als_file.tracks[p] = live_set.tracks[p]

\* C22: after the patch pass every track outside the targets is as it was
\* written, and a target track is as it was written but for one envelope
\* more: the envelopes it was written with, the pan envelope among them,
\* are still there.
C22_PatchOnlyAdds ==
    /\ PatchTouchesEnvelopesOfTargets
    /\ Patched =>
          \A p \in TargetPositions :
              OneAdded(als_file.tracks[p].envelopes, live_set.tracks[p].envelopes)

\* the sample-start envelope of entry data sits on track t
HoldsEnvelopeOf(t, data) ==
    \E j \in DOMAIN t.envelopes : t.envelopes[j].PointeeId = data.target_id

\* t is the track that was filled when entry data was recorded
FilledFor(t, data) ==
    /\ t.tag = "MidiTrack"
    /\ t.slot = data.track_index + 1
    /\ t.notes = data.notes
    /\ \E j \in DOMAIN t.device_elements :
          /\ t.device_elements[j].tag = "AutomationTarget"
          /\ t.device_elements[j].path = "SampleStart"
          /\ t.device_elements[j].Id = data.target_id

\* C23: the index recorded with an automation entry designates, among the
\* MidiTracks of the document, the track that was filled for it, before and
\* after the groups are inserted and the unused tracks removed; after the
\* patch pass the envelope of every entry sits on that track and on no
\* other.
C23_IndexDesignatesTrack ==
    /\ \A k \in DOMAIN automation_data_list :
          LET data == automation_data_list[k]
              midi == MidiTracksOf(live_set.tracks)
          IN  /\ data.track_index < Len(midi)
              /\ FilledFor(midi[data.track_index + 1], data)
    /\ Patched =>
          \A k \in DOMAIN automation_data_list :
              \A p \in DOMAIN als_file.tracks :
                  HoldsEnvelopeOf(als_file.tracks[p], automation_data_list[k])
                    <=> FilledFor(als_file.tracks[p], automation_data_list[k])

\* three planned tracks on a template of four: one track was removed, a
\* GroupTrack stands before the tracks of the two entries, and the patch
\* pass has run
C23_Witness ==
    /\ Patched
    /\ Len(tracks_to_create) = 3
    /\ track_index = 3
    /\ Len(automation_data_list) = 2
    /\ automation_data_list[1].notes = automation_data_list[2].notes
    /\ als_file.tracks[1].tag = "GroupTrack"
    /\ HoldsEnvelopeOf(als_file.tracks[2], automation_data_list[1])
    /\ HoldsEnvelopeOf(als_file.tracks[3], automation_data_list[2])

(***************************************************************************)
(* Properties of the XM decoder.                                           *)
(***************************************************************************)
\* the file read is one whose first 17 bytes are not the XM signature
ForeignIdText ==
    /\ pc \in { "xm_read", "failed", "decoded" }
    /\ decode_input.id_text # XmSignature

\* a file without samples ends the conversion with a failure
NoSamplesFails ==
    pc \in { "failed", "decoded" } =>
        (pc = "failed" <=> decode_result.samples = << >>)

\* C24: a file whose first 17 bytes are not "Extended Module: " yields no
\* samples and no patterns, and its conversion fails.
C24_ForeignFileRejected ==
    ForeignIdText =>
        /\ decode_result.samples = << >>
        /\ decode_result.patterns = << >>
        /\ pc # "decoded"

(***************************************************************************)
(* Properties of the MIDI clip of a filled track.                          *)
(***************************************************************************)
\* the filled tracks of the document with their plan entries
FilledPairs ==
    { << p, k >> \in (DOMAIN live_set.tracks) \X (DOMAIN tracks_to_create) :
         /\ live_set.tracks[p].tag = "MidiTrack"
         /\ tracks_to_create[k].track_element = live_set.tracks[p].slot }

\* the latest end of a note of a non-empty list
LatestEnd(notes) ==
    LET ends == { notes[k].time + notes[k].duration : k \in DOMAIN notes }
    IN  CHOOSE t \in ends : \A u \in ends : u <= t

\* the latest start of a note of a non-empty list
LatestStart(notes) ==
    LET times == { notes[k].time : k \in DOMAIN notes }
    IN  CHOOSE t \in times : \A u \in times : u <= t

\* every note sits once under the KeyTrack of its pitch, and nothing else
NotesUnderTheirKeys(clip, notes) ==
    /\ \A j \in DOMAIN clip.KeyTracks :
          LET HasKey(n) == n.note = clip.KeyTracks[j].MidiKey
              key_notes == SelectSeq(notes, HasKey)
          IN  /\ key_notes # << >>
              /\ clip.KeyTracks[j].events
                   = [k \in DOMAIN key_notes |->
                         [Time |-> key_notes[k].time,
                          Duration |-> key_notes[k].duration,
                          Velocity |-> key_notes[k].velocity]]
    /\ \A k \in DOMAIN notes :
          \E j \in DOMAIN clip.KeyTracks : clip.KeyTracks[j].MidiKey = notes[k].note
    /\ \A i, j \in DOMAIN clip.KeyTracks :
          i < j => clip.KeyTracks[i].MidiKey < clip.KeyTracks[j].MidiKey

\* what the clip of a filled track holds: its three end markers stand 4
\* beats after the start of the note that starts last
ClipEndsAfterLatestStart ==
    \A pk \in FilledPairs :
        LET clip == live_set.tracks[pk[1]].clip
            notes == tracks_to_create[pk[2]].notes
        IN  /\ clip.CurrentEnd = LatestStart(notes) + FourBeats
            /\ clip.LoopEnd = clip.CurrentEnd
            /\ clip.OutMarker = clip.CurrentEnd
            /\ NotesUnderTheirKeys(clip, notes)

\* C25: the clip of a filled track with notes has CurrentEnd, LoopEnd and
\* OutMarker at the latest note end (time + duration) plus 4 beats, and
\* holds each note under the KeyTrack of its pitch.
C25_ClipEndsAfterLatestEnd ==
    \A pk \in FilledPairs :
        LET clip == live_set.tracks[pk[1]].clip
            notes == tracks_to_create[pk[2]].notes
        IN  /\ clip.CurrentEnd = LatestEnd(notes) + FourBeats
            /\ clip.LoopEnd = LatestEnd(notes) + FourBeats
            /\ clip.OutMarker = LatestEnd(notes) + FourBeats
            /\ NotesUnderTheirKeys(clip, notes)

(***************************************************************************)
(* Properties of the pan automation.                                       *)
(***************************************************************************)
\* the times and values of the points of an envelope, in their order
PointsOf(envelope) ==
    [j \in DOMAIN envelope.events |->
        << envelope.events[j].Time, envelope.events[j].Value >>]

\* the points the notes of a track call for, given the default panning of
\* its sample: a point at 0 when the first panned note starts later, a
\* plateau for a panned note, one point for a note without panning that
\* directly follows a panned one
PanPointsFor(notes, default) ==
    LET sorted == SortByTime(notes)
        panned == { i \in DOMAIN sorted : sorted[i].panning_xm # None }
        first_panned == CHOOSE i \in panned : \A j \in panned : i <= j
        Contribution(i) ==
            IF i \in panned
            THEN << << sorted[i].time, PanValue(sorted[i].panning_xm) >>,
                    << sorted[i].time + sorted[i].duration,
                       PanValue(sorted[i].panning_xm) >> >>
            ELSE IF (i - 1) \in panned
            THEN << << sorted[i].time, PanValue(default) >> >>
            ELSE << >>
    IN  (IF sorted[first_panned].time > 0
         THEN << << 0, PanValue(default) >> >> ELSE << >>)
        \o Flatten([i \in DOMAIN sorted |-> Contribution(i)])

MergedInTimeOrder == SortByTime(lane_input[1] \o lane_input[2])

\* the places of MergedInTimeOrder that hold the first note of their key
FirstOfKey ==
    { i \in DOMAIN MergedInTimeOrder :
         \A j \in 1..(i - 1) :
             NoteKey(MergedInTimeOrder[j]) # NoteKey(MergedInTimeOrder[i]) }

\* C27: the result holds, for every key (time rounded to 4 decimals, pitch)
\* of the input, the first note of that key in stable time order and no
\* other note, in non-decreasing time order; two notes of one time and two
\* pitches are both in it; the function applied to the result returns it.
C27_MergeDeduplicates ==
    /\ pc \in { "merged_once", "merged_twice" } =>
          LET result == lane_result[1]
              kept == Sorted(FirstOfKey)
          IN  /\ result = [k \in 1..Len(kept) |-> MergedInTimeOrder[kept[k]]]
              /\ \A i, j \in DOMAIN result :
                    i < j => /\ result[i].time <= result[j].time
                             /\ NoteKey(result[i]) # NoteKey(result[j])
              /\ { NoteKey(result[i]) : i \in DOMAIN result }
                   = { NoteKey(MergedInTimeOrder[i]) : i \in DOMAIN MergedInTimeOrder }
              /\ \A i, j \in DOMAIN MergedInTimeOrder :
                    /\ MergedInTimeOrder[i].time = MergedInTimeOrder[j].time
                    /\ MergedInTimeOrder[i].note # MergedInTimeOrder[j].note
                    => \E a, b \in DOMAIN result :
                          /\ NoteKey(result[a]) = NoteKey(MergedInTimeOrder[i])
                          /\ NoteKey(result[b]) = NoteKey(MergedInTimeOrder[j])
                          /\ a # b
    /\ pc = "merged_twice" => lane_result[2] = lane_result[1]

\* the second channel holds a note 0.00004 beat before a note of the same
\* pitch of the first channel, and a note of the other pitch at that time:
\* the later duplicate is dropped, the two pitches of one time are kept
C27_Witness ==
    /\ pc = "merged_twice"
    /\ Len(lane_input[1]) = 1
    /\ Len(lane_input[2]) = 2
    /\ lane_input[1][1].time = 4
    /\ lane_input[2][1].time = 0
    /\ lane_input[2][1].note = lane_input[1][1].note
    /\ lane_input[2][1].duration # lane_input[1][1].duration
    /\ lane_input[2][2].time = 0
    /\ lane_input[2][2].note # lane_input[1][1].note
    /\ lane_result[1] = lane_input[2]
    /\ lane_result[2] = lane_input[2]

(***************************************************************************)
(* Properties of the MOD layout.                                           *)
(***************************************************************************)
\* the 4 bytes decoded are no known signature
LegacyDecoded ==
    /\ pc = "decoded"
    /\ decode_input.kind = "signature"
    /\ DecodeAsciiIgnore(decode_input.bytes) \notin KnownSignatures

\* what holds of a file without a known signature: 4 channels, 15 samples
\* at most, and the offsets of the 31-sample layout with the pattern data
\* at offset 1080
LegacyReadAt31Offsets ==
    LegacyDecoded =>
        /\ decode_result.extract.num_channels = 4
        /\ decode_result.extract.num_samples = 15
        /\ decode_result.layout.sample_headers = 31
        /\ decode_result.layout.song_length_at = 950
        /\ decode_result.layout.pattern_order_at = 952
        /\ decode_result.layout.pattern_data_at = 1080

\* C28: a MOD file without a known signature is decoded in the 15-sample
\* layout: 15 sample headers are read after the title, the song length at
\* offset 470 and the play order after it, the pattern data from offset
\* 600 on, with 4 channels and 15 samples at most.
C28_LegacyLayout ==
    LegacyDecoded =>
        /\ decode_result.layout.sample_headers = 15
        /\ decode_result.layout.song_length_at = 470
        /\ decode_result.layout.pattern_order_at = 472
        /\ decode_result.layout.pattern_data_at = 600
        /\ decode_result.extract.num_channels = 4
        /\ decode_result.extract.num_samples <= 15

(***************************************************************************)
(* Properties of the number of planned tracks.                             *)
(***************************************************************************)
\* the largest number of notes of a list that sound at one instant (it is
\* reached at the start of one of them)
MaxSounding(notes) ==
    LET SoundingAt(t) ==
            Cardinality({ j \in DOMAIN notes :
                             /\ notes[j].time <= t
                             /\ t < notes[j].time + notes[j].duration })
        counts == { SoundingAt(notes[i].time) : i \in DOMAIN notes } \cup { 0 }
    IN  CHOOSE c \in counts : \A d \in counts : d <= c

\* the planned tracks of an instrument
PlannedFor(instrument) ==
    LET IsOf(t) == t.instrument = instrument
    IN  SelectSeq(tracks_to_create, IsOf)

\* C29: in merge mode the planned tracks of an instrument are as many as
\* the largest number of its deduplicated notes that sound at one instant,
\* at most as many as the channels it plays on; the plan has at most as
\* many tracks as the plan of the default mode.
C29_LanesWithinChannels ==
    (pc = "planned" /\ enable_merge_tracks) =>
        /\ \A instrument \in DecodedInstruments :
              LET instrument_tracks == InstrumentTracks(tracks_data, instrument)
                  merged_notes ==
                      merge_and_deduplicate_notes(
                          [k \in 1..Len(instrument_tracks) |->
                              instrument_tracks[k].notes])
              IN  /\ Len(PlannedFor(instrument)) = MaxSounding(merged_notes)
                  /\ Len(PlannedFor(instrument)) <= Len(instrument_tracks)
        /\ Len(tracks_to_create) <= Len(PlanTracks(tracks_data, FALSE))

\* merge mode: an instrument plays two pitches at once on two channels and
\* has two lanes
C29_Witness ==
    /\ pc = "planned"
    /\ enable_merge_tracks
    /\ \E instrument \in DecodedInstruments :
          /\ Len(InstrumentTracks(tracks_data, instrument)) = 2
          /\ Len(PlannedFor(instrument)) = 2

(***************************************************************************)
(* Properties of the envelopes of decoded tracks.                          *)
(***************************************************************************)
\* the times of the points of every envelope of the tracks start at 0 or
\* later and never decrease
EnvelopesInTimeOrder(tracks) ==
    \A p \in DOMAIN tracks :
        \A j \in DOMAIN tracks[p].envelopes :
            LET events == tracks[p].envelopes[j].events
            IN  /\ events # << >>
                /\ events[1].Time >= 0
                /\ \A i \in 1..(Len(events) - 1) :
                      events[i].Time <= events[i + 1].Time

\* C30: in the document under assembly and in the written file, before
\* and after the patch pass, the points of every envelope of every track
\* stand in non-decreasing time order and start at a time >= 0.
C30_EnvelopeTimesOrdered ==
    /\ pc \in { "populate", "grouped", "cleaned", "tempo_set", "saved", "done" }
          => EnvelopesInTimeOrder(live_set.tracks)
    /\ pc \in { "saved", "done" } => EnvelopesInTimeOrder(als_file.tracks)

\* a merge-mode conversion is complete: a track was written with a pan
\* envelope of a point at 0 and two plateaus, and the patch pass gave a
\* track a sample-start envelope with the plateaus of two notes
C30_Witness ==
    /\ pc = "done"
    /\ enable_merge_tracks
    /\ \E p \in DOMAIN live_set.tracks :
          /\ Len(live_set.tracks[p].envelopes) = 1
          /\ Len(live_set.tracks[p].envelopes[1].events) >= 5
          /\ live_set.tracks[p].envelopes[1].PointeeId = live_set.tracks[p].pan_target
    /\ \E p \in DOMAIN als_file.tracks :
          /\ Len(als_file.tracks[p].envelopes) = 1
          /\ Len(als_file.tracks[p].envelopes[1].events) >= 5
          /\ als_file.tracks[p].envelopes[1].PointeeId # als_file.tracks[p].pan_target

====
